---- MODULE Spec2Model ----
(***************************************************************************)
(* Model of agent_samwise: the orchestration loop (agent/mod.rs), the      *)
(* execution engine (execution/mod.rs), the verification engine            *)
(* (verification/mod.rs), the in-memory state store (state/mod.rs) and     *)
(* the audit log (audit/mod.rs).                                           *)
(*                                                                         *)
(* Uuid::new_v4() is modelled as a fresh identifier: a plan id is the pair *)
(* <<run, number of the planner call>>, a step id is the pair              *)
(* <<plan id, position in plan.steps>>, an audit id is drawn from a        *)
(* counter.  Timestamps and durations are left out.                        *)
(***************************************************************************)
EXTENDS Integers, Sequences, FiniteSets, TLC

\* ------------------------------------------------------------------ constants

\* agent/mod.rs:20
MAX_REPLAN_ATTEMPTS == 5
\* agent/mod.rs:21
MAX_STEPS_PER_PLAN == 20
\* execution/mod.rs:17
ENGINE_MAX_STEPS_PER_PLAN == 50

\* Bounds of the plans given to execute_plan directly (SpecExec).
MaxPlanLen == 2
MaxOrder == 2

\* Bound of the rule lists given to verify directly (SpecVerify).
MaxRules == 3

\* Bounds of the calls made on the audit log directly (SpecAudit).
MaxAuditIds == 2
MaxTime == 2
MaxRecordCalls == 2

\* Bounds of the calls made on a conversation history directly (SpecMemory):
\* the messages ever added, the byte length of a new message's content, the
\* token count of a message loaded from storage, the keep_count given to
\* trim_to_recent, and the width of usize.  A token count is a content
\* length over four or a non-negative i32, so a total wraps only past 2^33
\* held messages; the widths here keep that proportion.
MaxMessages == 4
MaxContentLen == 5
MaxLoadedTokens == 2
MaxKeep == 2
UsizeBits == 8

\* Bounds of the configurations a ContextManager is built with (SpecContext):
\* max_context_tokens, and the largest min_messages_to_keep and
\* preserve_recent_count.
MaxContextTokens == 5
MaxPreserve == 2

\* Bound of the requests made of handle_conversational_with_memory
\* (SpecChat): a request starts only while fewer than this many message ids
\* have been drawn.
MaxChatIds == 9

\* ------------------------------------------------------------------ values

\* Concurrent calls of Orchestrator::run on the shared orchestrator
\* (api.rs hands every goal-driven request to state.orchestrator.run).
Runs == {"r1", "r2"}

\* Goal.user_id and Goal.tenant_id of the goal each run was given.
UserOf(r) == IF r = "r1" THEN "u1" ELSE "u2"
TenantOf(r) == IF r = "r1" THEN "t1" ELSE "t2"

\* ExecutionStatus
Success == "Success"
Failed == "Failed"
Skipped == "Skipped"

\* Names the tool registry resolves (create_default_registry), and one it
\* does not.
Registry == {"web_search", "insights"}
UnknownTool == "unknown_tool"

\* ToolRegistry::get
RegistryGet(name) == name \in Registry

NoPlan == [plan_id |-> <<"none", 0>>, steps |-> <<>>]

PlanStep(order, tool, deps) == [order |-> order, tool_name |-> tool, dependencies |-> deps]

\* MockPlanner::create_plan: web_search, then insights depending on order 1.
MockSteps == << PlanStep(1, "web_search", {}), PlanStep(2, "insights", {1}) >>

\* GeminiPlanner: a single step, order 1, no dependencies.
SingleStep == << PlanStep(1, "web_search", {}) >>
SingleUnknownStep == << PlanStep(1, UnknownTool, {}) >>
\* A single step that depends on an order no step has.
UnmetStep == << PlanStep(1, "web_search", {2}) >>

\* A dependency on a step that comes later in the sequence, an unregistered
\* tool in the middle, and a free step at the end.
MixedSteps == << PlanStep(2, "insights", {1}), PlanStep(1, UnknownTool, {}),
                 PlanStep(3, "web_search", {}) >>

\* A plan over the loop's step bound.
OversizedSteps == [i \in 1..(MAX_STEPS_PER_PLAN + 1) |-> PlanStep(i, "web_search", {})]

\* Plans handed to execute_plan directly: every sequence of at most
\* MaxPlanLen steps over the orders 1..MaxOrder, a registered and an
\* unregistered tool name, and every dependency list over those orders.
Orders == 1..MaxOrder
AllSteps == { PlanStep(o, t, d) : o \in Orders, t \in {"web_search", UnknownTool},
                                   d \in SUBSET Orders }
AllStepSeqs == UNION { [1..n -> AllSteps] : n \in 0..MaxPlanLen }

\* A plan at the engine's ceiling and a plan one step over it.
AtCeilingSteps == [i \in 1..ENGINE_MAX_STEPS_PER_PLAN |-> PlanStep(i, "insights", {})]
OverCeilingSteps == [i \in 1..(ENGINE_MAX_STEPS_PER_PLAN + 1) |-> PlanStep(i, "insights", {})]

\* The plans execute_plan is called with on its own.
EngineInputs == AllStepSeqs \cup { AtCeilingSteps, OverCeilingSteps }

\* ContextConfig::default().  summarization_threshold, an f32 in the source,
\* is held in hundredths: 80 is 0.8.
DefaultConfig ==
    [max_context_tokens |-> 100000, summarization_threshold |-> 80,
     min_messages_to_keep |-> 5, preserve_recent_count |-> 10]

\* The conversation keys (user_id, conversation_id) of the memory backend,
\* and the one each request is for.
Conversations == {"c1"}
ConversationOf(r) == "c1"

\* ConversationHistory::new: no message, a counter of zero.
EmptyHistory == [messages |-> <<>>, total_tokens |-> 0]

\* ------------------------------------------------------------------ state

VARIABLES
    pc,                   \* where each run is
    context,              \* run: the ContextSnapshot loaded before the loop
    replan_count,         \* run: let mut replan_count
    plan,                 \* run: the plan of the current attempt
    all_observations,     \* run: let mut all_observations
    persist_idx,          \* run: position of the persist loop
    reasoning_trace,      \* run: let mut reasoning_trace
    execution_record,     \* run: let execution_record
    result,               \* run: the value run returned
    observations,         \* execute_plan: let mut observations
    step_outputs,         \* execute_plan: keys of the step_outputs map
    step_idx,             \* execute_plan: position of the for loop
    halted,               \* execute_plan: the for loop was left by break
    invoked,              \* positions whose tool.execute was called, in call order
    tool_results,         \* what each tool.execute call returned, in call order
    planner_calls,        \* per run, the failure_reason of each create_plan call
    persist_calls,        \* per run, the step ids given to persist_observation
    verdicts,             \* per run, the VerificationResult of each verify call
    audit_writes,         \* per run, the audit ids given to AuditLog::record
    observations_by_plan, \* InMemoryStateStore.observations_by_plan
    tenant_by_user,       \* InMemoryStateStore.tenant_by_user
    records,              \* AuditLog.records
    rules,                \* VerificationEngine.rules
    planner,              \* Orchestrator.planner: which Planner it was built with
    config,               \* ContextManager.config
    next_uuid,            \* source of fresh ids (Uuid::new_v4)
    messages,             \* ConversationHistory.messages, oldest first
    total_tokens,         \* ConversationHistory.total_tokens
    histories,            \* ConversationMemory: MemoryBackend::InMemory.histories
    history               \* handle_conversational_with_memory: let mut history

runVars == << context, replan_count, plan, all_observations, persist_idx,
              reasoning_trace, execution_record, result >>
engineVars == << observations, step_outputs, step_idx, halted, invoked, tool_results >>
logVars == << planner_calls, persist_calls, verdicts, audit_writes >>
storeVars == << observations_by_plan, tenant_by_user >>
orchVars == << rules, planner, config >>
memoryVars == << messages, total_tokens >>
chatVars == << histories, history >>
vars == << pc, runVars, engineVars, logVars, storeVars, records, orchVars, memoryVars, chatVars, next_uuid >>

\* ------------------------------------------------------------------ execute_plan

\* A ceiling that is the loop's step bound.
ExceedsCeilingLoopBound(p) == Len(p.steps) > MAX_STEPS_PER_PLAN

\* execution/mod.rs:36: the defensive ceiling.
ExceedsCeiling(p) == Len(p.steps) > ENGINE_MAX_STEPS_PER_PLAN

\* A dependency check that finds nothing missing.
MissingDependenciesIgnored(step, outputs) == {}

\* execution/mod.rs:63-68: the declared dependencies with no successful output.
MissingDependencies(step, outputs) == { d \in step.dependencies : d \notin outputs }

\* The Observation execute_plan builds for the step at position i.
MakeObservation(r, p, i, status, output) ==
    [ plan_id |-> p.plan_id,
      step_id |-> << p.plan_id, i >>,
      tenant_id |-> TenantOf(r),
      user_id |-> UserOf(r),
      tool_name |-> p.steps[i].tool_name,
      tool_output |-> output,
      status |-> status ]

\* An engine that stops at every observation that is not a Success.
HaltsOnNotSuccess(status) == status # Success

\* An engine that goes on after a failure.
HaltsNever(status) == FALSE

\* execution/mod.rs:172: fail-fast.
HaltsOn(status) == status = Failed

\* execution/mod.rs:30-51: entry of execute_plan.
ExecuteBegin(r) ==
    /\ pc[r] = "execute"
    /\ IF ExceedsCeiling(plan[r])
       THEN /\ pc' = [pc EXCEPT ![r] = "error"]
            /\ result' = [result EXCEPT ![r] = [kind |-> "err", error |-> "InvalidPlan"]]
            /\ UNCHANGED engineVars
       ELSE /\ pc' = [pc EXCEPT ![r] = "step"]
            /\ observations' = [observations EXCEPT ![r] = <<>>]
            /\ step_outputs' = [step_outputs EXCEPT ![r] = {}]
            /\ step_idx' = [step_idx EXCEPT ![r] = 1]
            /\ halted' = [halted EXCEPT ![r] = FALSE]
            /\ invoked' = [invoked EXCEPT ![r] = <<>>]
            /\ tool_results' = [tool_results EXCEPT ![r] = <<>>]
            /\ UNCHANGED result
    /\ UNCHANGED << context, replan_count, plan, all_observations, persist_idx,
                    execution_record,
                    reasoning_trace, logVars, storeVars, records, orchVars, memoryVars, chatVars, next_uuid >>

InLoop(r) ==
    /\ pc[r] = "step"
    /\ ~halted[r]
    /\ step_idx[r] <= Len(plan[r].steps)

CurrentStep(r) == plan[r].steps[step_idx[r]]

\* An iteration that never records the step's output.
IterateKeepsNoOutput(r, status, output, called) ==
    /\ observations' = [observations EXCEPT ![r] =
           Append(@, MakeObservation(r, plan[r], step_idx[r], status, output))]
    /\ step_outputs' = step_outputs
    /\ invoked' = [invoked EXCEPT ![r] = IF called THEN Append(@, step_idx[r]) ELSE @]
    /\ halted' = [halted EXCEPT ![r] = HaltsOn(status)]
    /\ step_idx' = [step_idx EXCEPT ![r] = @ + 1]
    /\ UNCHANGED << pc, runVars, logVars, storeVars, records, orchVars, memoryVars, chatVars, next_uuid >>

\* One iteration of the for loop that ends with the given status.
Iterate(r, status, output, called) ==
    /\ observations' = [observations EXCEPT ![r] =
           Append(@, MakeObservation(r, plan[r], step_idx[r], status, output))]
    /\ step_outputs' = [step_outputs EXCEPT ![r] =
           IF status = Success THEN @ \cup {CurrentStep(r).order} ELSE @]
    /\ invoked' = [invoked EXCEPT ![r] = IF called THEN Append(@, step_idx[r]) ELSE @]
    /\ halted' = [halted EXCEPT ![r] = HaltsOn(status)]
    /\ step_idx' = [step_idx EXCEPT ![r] = @ + 1]
    /\ UNCHANGED << pc, runVars, logVars, storeVars, records, orchVars, memoryVars, chatVars, next_uuid >>

\* execution/mod.rs:70-100: unmet dependencies, the tool is not looked up.
SkipUnmet(r) ==
    /\ InLoop(r)
    /\ MissingDependencies(CurrentStep(r), step_outputs[r]) # {}
    /\ Iterate(r, Skipped,
               [error |-> "Unmet dependencies",
                missing |-> MissingDependencies(CurrentStep(r), step_outputs[r])],
               FALSE)
    /\ UNCHANGED tool_results

\* execution/mod.rs:137-148: the registry does not know the tool.
SkipUnregistered(r) ==
    /\ InLoop(r)
    /\ MissingDependencies(CurrentStep(r), step_outputs[r]) = {}
    /\ ~RegistryGet(CurrentStep(r).tool_name)
    /\ Iterate(r, Skipped, [error |-> "Tool not registered", missing |-> {}], FALSE)
    /\ UNCHANGED tool_results

\* models.rs:188-193: a ToolOutput with the given success flag.
ToolOutput(success) ==
    [ success |-> success,
      data |-> [error |-> "", missing |-> {}],
      error |-> IF success THEN "None" ELSE "Some" ]

\* The success flags the outputs of a registered tool can carry: every tool
\* of tools/mod.rs sets success: true; the Tool trait leaves the flag to the
\* implementation, and the model lets one registered tool return either.
SuccessFlags(tool_name) ==
    IF tool_name = "web_search" THEN BOOLEAN ELSE {TRUE}

\* What tool.execute returned for the step at position i.
ToolResult(i, returned, success) ==
    [step |-> i, returned |-> returned, success |-> success]

\* An engine that takes the status of a step from the success flag of the
\* ToolOutput.
ToolOkByFlag(r) ==
    /\ InLoop(r)
    /\ MissingDependencies(CurrentStep(r), step_outputs[r]) = {}
    /\ RegistryGet(CurrentStep(r).tool_name)
    /\ \E success \in SuccessFlags(CurrentStep(r).tool_name) :
         /\ Iterate(r, IF success THEN Success ELSE Failed,
                    ToolOutput(success).data, TRUE)
         /\ tool_results' = [tool_results EXCEPT ![r] =
                Append(@, ToolResult(step_idx[r], "Ok", success))]

\* execution/mod.rs:116-123: tool.execute returned Ok(output), whatever
\* output.success is.
ToolOk(r) ==
    /\ InLoop(r)
    /\ MissingDependencies(CurrentStep(r), step_outputs[r]) = {}
    /\ RegistryGet(CurrentStep(r).tool_name)
    /\ \E success \in SuccessFlags(CurrentStep(r).tool_name) :
         /\ Iterate(r, Success, ToolOutput(success).data, TRUE)
         /\ tool_results' = [tool_results EXCEPT ![r] =
                Append(@, ToolResult(step_idx[r], "Ok", success))]

\* execution/mod.rs:124-135: tool.execute returned Err.
ToolErr(r) ==
    /\ InLoop(r)
    /\ MissingDependencies(CurrentStep(r), step_outputs[r]) = {}
    /\ RegistryGet(CurrentStep(r).tool_name)
    /\ Iterate(r, Failed, [error |-> "tool error", missing |-> {}], TRUE)
    /\ tool_results' = [tool_results EXCEPT ![r] =
           Append(@, ToolResult(step_idx[r], "Err", FALSE))]

\* execution/mod.rs:180-188: the loop is over, Ok(observations).
ExecuteReturn(r) ==
    /\ pc[r] = "step"
    /\ halted[r] \/ step_idx[r] > Len(plan[r].steps)
    /\ pc' = [pc EXCEPT ![r] = "returned"]
    /\ UNCHANGED << runVars, engineVars, logVars, storeVars, records, orchVars, memoryVars, chatVars, next_uuid >>

ExecutePlan(r) ==
    \/ ExecuteBegin(r)
    \/ SkipUnmet(r)
    \/ SkipUnregistered(r)
    \/ ToolOk(r)
    \/ ToolErr(r)
    \/ ExecuteReturn(r)

\* ------------------------------------------------------------------ verify

Low == "Low"
Medium == "Medium"
High == "High"
Critical == "Critical"

\* RiskLevel::rank
Rank(level) ==
    CASE level = Low -> 0
      [] level = Medium -> 1
      [] level = High -> 2
      [] level = Critical -> 3

\* An escalation that keeps the severity of the last rule that failed.
MaxRiskLatest(a, b) == b

\* std::cmp::max under Ord for RiskLevel
MaxRisk(a, b) == IF Rank(b) >= Rank(a) THEN b ELSE a

\* create_default_verification_engine
DefaultRules ==
    << [name |-> "all_observations_success", risk_level |-> High],
       [name |-> "portfolio_risk_constraint", risk_level |-> Medium] >>

\* A rule added with add_rule, whose outcome the model leaves open.
CustomRule == [name |-> "custom_rule", risk_level |-> Critical]
CustomNames == {"custom_rule"}

\* A rule that also asks for at least one observation.
AllObservationsSuccessSome(obs) ==
    /\ obs # <<>>
    /\ Cardinality({ i \in 1..Len(obs) : obs[i].status = Success }) = Len(obs)

\* AllObservationsSuccessRule::verify
AllObservationsSuccess(obs) ==
    Cardinality({ i \in 1..Len(obs) : obs[i].status = Success }) = Len(obs)

\* VerificationRule::verify of the rule; ext gives the outcome of added rules.
RulePassed(rule, obs, ext) ==
    CASE rule.name = "all_observations_success" -> AllObservationsSuccess(obs)
      [] rule.name = "portfolio_risk_constraint" -> TRUE
      [] OTHER -> ext[rule.name]

RECURSIVE VerifyLoopShortCircuit(_, _, _, _, _)
\* A loop over the rules that stops at the first rule that failed.
VerifyLoopShortCircuit(rs, k, obs, ext, acc) ==
    IF k > Len(rs) \/ acc.issues # <<>> THEN acc
    ELSE LET passed == RulePassed(rs[k], obs, ext)
             check == [rule_name |-> rs[k].name, passed |-> passed]
         IN VerifyLoopShortCircuit(rs, k + 1, obs, ext,
                [ compliance_checks |-> Append(acc.compliance_checks, check),
                  issues |-> IF passed THEN acc.issues
                             ELSE Append(acc.issues, rs[k].name),
                  max_risk |-> IF passed THEN acc.max_risk
                               ELSE MaxRisk(acc.max_risk, rs[k].risk_level) ])

RECURSIVE VerifyLoop(_, _, _, _, _)
\* verification/mod.rs:63-84: the for loop over the rules, from rule k on.
VerifyLoop(rs, k, obs, ext, acc) ==
    IF k > Len(rs) THEN acc
    ELSE LET passed == RulePassed(rs[k], obs, ext)
             check == [rule_name |-> rs[k].name, passed |-> passed]
         IN VerifyLoop(rs, k + 1, obs, ext,
                [ compliance_checks |-> Append(acc.compliance_checks, check),
                  issues |-> IF passed THEN acc.issues
                             ELSE Append(acc.issues, rs[k].name),
                  max_risk |-> IF passed THEN acc.max_risk
                               ELSE MaxRisk(acc.max_risk, rs[k].risk_level) ])

\* A verdict whose risk level is the severity of the first registered rule,
\* whether or not that rule failed.
VerifyRiskOfFirstRule(rs, obs, ext) ==
    LET out == VerifyLoop(rs, 1, obs, ext,
                   [compliance_checks |-> <<>>, issues |-> <<>>, max_risk |-> Low])
    IN [ verified |-> out.issues = <<>>,
         risk_level |-> IF rs = <<>> THEN Low ELSE rs[1].risk_level,
         compliance_checks |-> out.compliance_checks,
         issues |-> out.issues ]

\* VerificationEngine::verify
Verify(rs, obs, ext) ==
    LET out == VerifyLoop(rs, 1, obs, ext,
                   [compliance_checks |-> <<>>, issues |-> <<>>, max_risk |-> Low])
    IN [ verified |-> out.issues = <<>>,
         risk_level |-> out.max_risk,
         compliance_checks |-> out.compliance_checks,
         issues |-> out.issues ]

\* ------------------------------------------------------------------ state store

\* HashMap::entry(k).or_insert(v)
OrInsert(map, k, v) ==
    IF k \in DOMAIN map THEN map
    ELSE [x \in DOMAIN map \cup {k} |-> IF x = k THEN v ELSE map[x]]

\* HashMap::insert(k, v)
Insert(map, k, v) == [x \in DOMAIN map \cup {k} |-> IF x = k THEN v ELSE map[x]]

\* A store that puts the new observation first.
PushObservationFront(map, obs) ==
    [x \in DOMAIN map \cup {obs.plan_id} |->
        IF x = obs.plan_id
        THEN << obs >> \o (IF obs.plan_id \in DOMAIN map THEN map[obs.plan_id] ELSE <<>>)
        ELSE map[x]]

\* state/mod.rs:57-61: entry(plan_id).or_insert_with(Vec::new).push(obs)
PushObservation(map, obs) ==
    Insert(map, obs.plan_id,
           Append(IF obs.plan_id \in DOMAIN map THEN map[obs.plan_id] ELSE <<>>, obs))

\* InMemoryStateStore::load_observations
LoadObservations(plan_id) ==
    IF plan_id \in DOMAIN observations_by_plan THEN observations_by_plan[plan_id] ELSE <<>>

\* state/mod.rs:91-96: the step ids of the stored observations of the user
\* (the Vec follows the HashMap's iteration order; the model keeps the set).
ObservationsOfUser(user) ==
    UNION { { observations_by_plan[p][i].step_id :
                i \in { j \in 1..Len(observations_by_plan[p]) :
                          observations_by_plan[p][j].user_id = user } } :
            p \in DOMAIN observations_by_plan }

\* ------------------------------------------------------------------ audit log

\* The goal each run was called with.
GoalOf(r) == [goal_id |-> r, tenant_id |-> TenantOf(r), user_id |-> UserOf(r)]

\* audit/mod.rs:77-86: the SHA-256 of the goal's JSON, one digest per content.
ComputeContextHash(goal) == << "sha256", goal.goal_id, goal.tenant_id, goal.user_id >>

\* AuditLog::get: the Option as a set, empty for None.
AuditGet(audit_id) == IF audit_id \in DOMAIN records THEN { records[audit_id] } ELSE {}

\* audit/mod.rs:103-108: replay_execution is AuditLog::get.
ReplayExecution(audit_id) == AuditGet(audit_id)

\* ------------------------------------------------------------------ run

\* A loop check that is off by one.
ReplansExceededOffByOne(count) == count > MAX_REPLAN_ATTEMPTS + 1

\* agent/mod.rs:246
ReplansExceeded(count) == count > MAX_REPLAN_ATTEMPTS

\* A step check against the engine's ceiling instead of the loop's bound.
PlanTooLongCeiling(steps) == Len(steps) > ENGINE_MAX_STEPS_PER_PLAN

\* agent/mod.rs:270
PlanTooLong(steps) == Len(steps) > MAX_STEPS_PER_PLAN

\* A reason handed over from the first call on.
FailureReasonAlways(count) == "Some"

\* agent/mod.rs:252-256
FailureReason(count) == IF count > 0 THEN "Some" ELSE "None"

\* A run without the fast fail.
FailsFastNever(p, obs) == FALSE

\* agent/mod.rs:289-293: single-tool mode and an observation that is not Success.
FailsFast(p, obs) ==
    /\ Len(p.steps) = 1
    /\ \E i \in 1..Len(obs) : obs[i].status # Success

\* The planners an orchestrator is built with: MockPlanner, GeminiPlanner, and
\* two other implementations of the Planner trait, one that may answer with
\* any of the plans above, one that answers the first goal with the two-step
\* plan and every other goal with a single step or an oversized plan.
Planners == {"mock", "gemini", "varied", "by_goal"}

\* The steps of the plans create_plan can return for the goal of run r.
PlannerSteps(r) ==
    CASE planner = "mock" -> { MockSteps }
      [] planner = "gemini" -> { SingleStep, SingleUnknownStep }
      [] planner = "varied" ->
            { <<>>, SingleStep, SingleUnknownStep, MockSteps, MixedSteps, OversizedSteps }
      [] planner = "by_goal" ->
            IF r = "r1" THEN { MockSteps }
            ELSE { SingleStep, SingleUnknownStep, UnmetStep, OversizedSteps }

\* Whether create_plan can return Err: MockPlanner never does.
PlannerCanFail == planner # "mock"

\* An entry of the reasoning trace: the stage and what the format string prints.
Entry(stage, a, b, tool) == [stage |-> stage, a |-> a, b |-> b, tool |-> tool]

Pending == [kind |-> "pending"]
NoRecord == [audit_id |-> 0]
Err(error) == [kind |-> "err", error |-> error]

TerminateAndGoOn(r, error) ==
    /\ pc' = [pc EXCEPT ![r] = "verify"]
    /\ result' = [result EXCEPT ![r] = Err(error)]
\* return Err(error), by `?` or by an explicit return: run is over.
Terminate(r, error) ==
    /\ pc' = [pc EXCEPT ![r] = "error"]
    /\ result' = [result EXCEPT ![r] = Err(error)]

\* agent/mod.rs:236-242: the first trace entries and the tenant read of load_context.
LoadContextTenant(r) ==
    /\ pc[r] = "idle"
    /\ pc' = [pc EXCEPT ![r] = "load_context"]
    /\ reasoning_trace' = [reasoning_trace EXCEPT ![r] =
           << Entry("INPUT", 0, 0, ""), Entry("PLAN", 0, 0, "") >>]
    /\ context' = [context EXCEPT ![r] =
           [ user_id |-> UserOf(r),
             tenant_id |-> IF UserOf(r) \in DOMAIN tenant_by_user
                           THEN tenant_by_user[UserOf(r)] ELSE "nil",
             observations |-> {} ]]
    /\ UNCHANGED << replan_count, plan, all_observations, persist_idx,
                    execution_record, result,
                    engineVars, logVars, storeVars, records, orchVars, memoryVars, chatVars, next_uuid >>

\* state/mod.rs:88-109: the observations read of load_context, Ok(context).
LoadContextObservations(r) ==
    /\ pc[r] = "load_context"
    /\ pc' = [pc EXCEPT ![r] = "plan"]
    /\ context' = [context EXCEPT ![r].observations = ObservationsOfUser(UserOf(r))]
    /\ UNCHANGED << replan_count, plan, all_observations, persist_idx,
                    execution_record, reasoning_trace,
                    result, engineVars, logVars, storeVars, records, orchVars, memoryVars, chatVars, next_uuid >>

\* agent/mod.rs:242: load_context of a store that fails.
LoadContextError(r) ==
    /\ pc[r] = "load_context"
    /\ Terminate(r, "StateError")
    /\ UNCHANGED << context, replan_count, plan, all_observations, persist_idx,
                    execution_record,
                    reasoning_trace, engineVars, logVars, storeVars, records, orchVars, memoryVars, chatVars,
                    next_uuid >>

\* agent/mod.rs:246-250
MaxReplansExceeded(r) ==
    /\ pc[r] = "plan"
    /\ ReplansExceeded(replan_count[r])
    /\ Terminate(r, "MaxReplansExceeded")
    /\ UNCHANGED << context, replan_count, plan, all_observations, persist_idx,
                    execution_record,
                    reasoning_trace, engineVars, logVars, storeVars, records, orchVars, memoryVars, chatVars,
                    next_uuid >>

\* agent/mod.rs:258-261: create_plan returned Err.
PlannerError(r) ==
    /\ pc[r] = "plan"
    /\ PlannerCanFail
    /\ ~ReplansExceeded(replan_count[r])
    /\ planner_calls' = [planner_calls EXCEPT ![r] = Append(@, FailureReason(replan_count[r]))]
    /\ Terminate(r, "PlanningError")
    /\ UNCHANGED << context, replan_count, plan, all_observations, persist_idx,
                    execution_record,
                    reasoning_trace, engineVars, persist_calls, verdicts, audit_writes,
                    storeVars, records, orchVars, memoryVars, chatVars, next_uuid >>

\* agent/mod.rs:258-275: create_plan returned a plan over the step bound.
PlanRejected(r) ==
    /\ pc[r] = "plan"
    /\ ~ReplansExceeded(replan_count[r])
    /\ \E steps \in PlannerSteps(r) :
         /\ PlanTooLong(steps)
         /\ plan' = [plan EXCEPT ![r] =
                [plan_id |-> << r, Len(planner_calls[r]) + 1 >>, steps |-> steps]]
    /\ planner_calls' = [planner_calls EXCEPT ![r] = Append(@, FailureReason(replan_count[r]))]
    /\ Terminate(r, "InvalidPlan")
    /\ UNCHANGED << context, replan_count, all_observations, persist_idx,
                    execution_record,
                    reasoning_trace, engineVars, persist_calls, verdicts, audit_writes,
                    storeVars, records, orchVars, memoryVars, chatVars, next_uuid >>

PlanAcceptedUnexecuted(r) ==
    /\ pc[r] = "plan"
    /\ ~ReplansExceeded(replan_count[r])
    /\ \E steps \in PlannerSteps(r) :
         /\ ~PlanTooLong(steps)
         /\ plan' = [plan EXCEPT ![r] =
                [plan_id |-> << r, Len(planner_calls[r]) + 1 >>, steps |-> steps]]
         /\ reasoning_trace' = [reasoning_trace EXCEPT ![r] =
                @ \o << Entry("PLAN_STEPS", Len(steps), 0, ""), Entry("EXECUTE", 0, 0, "") >>]
    /\ planner_calls' = [planner_calls EXCEPT ![r] = Append(@, FailureReason(replan_count[r]))]
    /\ pc' = [pc EXCEPT ![r] = "verify"]
    /\ UNCHANGED << context, replan_count, all_observations, persist_idx,
                    execution_record, result,
                    engineVars, persist_calls, verdicts, audit_writes,
                    storeVars, records, orchVars, memoryVars, chatVars, next_uuid >>
\* agent/mod.rs:258-281: create_plan returned a plan within the step bound.
PlanAccepted(r) ==
    /\ pc[r] = "plan"
    /\ ~ReplansExceeded(replan_count[r])
    /\ \E steps \in PlannerSteps(r) :
         /\ ~PlanTooLong(steps)
         /\ plan' = [plan EXCEPT ![r] =
                [plan_id |-> << r, Len(planner_calls[r]) + 1 >>, steps |-> steps]]
         /\ reasoning_trace' = [reasoning_trace EXCEPT ![r] =
                @ \o << Entry("PLAN_STEPS", Len(steps), 0, ""), Entry("EXECUTE", 0, 0, "") >>]
    /\ planner_calls' = [planner_calls EXCEPT ![r] = Append(@, FailureReason(replan_count[r]))]
    /\ pc' = [pc EXCEPT ![r] = "execute"]
    /\ UNCHANGED << context, replan_count, all_observations, persist_idx,
                    execution_record, result,
                    engineVars, persist_calls, verdicts, audit_writes,
                    storeVars, records, orchVars, memoryVars, chatVars, next_uuid >>

\* agent/mod.rs:288-304: the single-step fast fail.
FailFast(r) ==
    /\ pc[r] = "returned"
    /\ FailsFast(plan[r], observations[r])
    /\ Terminate(r, "ExecutionError")
    /\ UNCHANGED << context, replan_count, plan, all_observations, persist_idx,
                    execution_record,
                    reasoning_trace, engineVars, logVars, storeVars, records, orchVars, memoryVars, chatVars,
                    next_uuid >>

\* A run that appends each attempt's observations to those of its earlier
\* attempts.
ObserveAccumulates(r) ==
    /\ pc[r] = "returned"
    /\ ~FailsFast(plan[r], observations[r])
    /\ all_observations' = [all_observations EXCEPT ![r] = @ \o observations[r]]
    /\ persist_idx' = [persist_idx EXCEPT ![r] = 1]
    /\ pc' = [pc EXCEPT ![r] = IF observations[r] = <<>> THEN "verify" ELSE "persist"]
    /\ UNCHANGED << context, replan_count, plan, reasoning_trace, execution_record,
                    result, engineVars, logVars, storeVars, records, orchVars, memoryVars, chatVars, next_uuid >>

\* agent/mod.rs:306-308: all_observations = observations.clone(), the persist
\* loop starts.
Observe(r) ==
    /\ pc[r] = "returned"
    /\ ~FailsFast(plan[r], observations[r])
    /\ all_observations' = [all_observations EXCEPT ![r] = observations[r]]
    /\ persist_idx' = [persist_idx EXCEPT ![r] = 1]
    /\ pc' = [pc EXCEPT ![r] = IF observations[r] = <<>> THEN "verify" ELSE "persist"]
    /\ UNCHANGED << context, replan_count, plan, reasoning_trace, execution_record,
                    result, engineVars, logVars, storeVars, records, orchVars, memoryVars, chatVars, next_uuid >>

\* A persist loop that gives the first observation every time.
CurrentObservationFirst(r) == observations[r][1]

\* agent/mod.rs:308: obs of the for loop over observations.
CurrentObservation(r) == observations[r][persist_idx[r]]

ObserveEntryUnnumbered(r) ==
    Entry("OBSERVE", 1, 0, CurrentObservation(r).tool_name)
\* agent/mod.rs:309-314: "OBSERVE: Step {i + 1} ({tool_name}) - {ms} ms".
ObserveEntry(r) ==
    Entry("OBSERVE", persist_idx[r], 0, CurrentObservation(r).tool_name)

\* agent/mod.rs:309-316 and state/mod.rs:52-55: the OBSERVE entry, then
\* persist_observation takes the tenant lock.
PersistTenant(r) ==
    /\ pc[r] = "persist"
    /\ reasoning_trace' = [reasoning_trace EXCEPT ![r] = Append(@, ObserveEntry(r))]
    /\ persist_calls' = [persist_calls EXCEPT ![r] = Append(@, CurrentObservation(r).step_id)]
    /\ tenant_by_user' = OrInsert(tenant_by_user, CurrentObservation(r).user_id,
                                   CurrentObservation(r).tenant_id)
    /\ pc' = [pc EXCEPT ![r] = "persist_push"]
    /\ UNCHANGED << context, replan_count, plan, all_observations, persist_idx,
                    execution_record, result,
                    engineVars, planner_calls, verdicts, audit_writes,
                    observations_by_plan, records, orchVars, memoryVars, chatVars, next_uuid >>

\* agent/mod.rs:316: persist_observation of a store that fails.
PersistError(r) ==
    /\ pc[r] = "persist"
    /\ reasoning_trace' = [reasoning_trace EXCEPT ![r] = Append(@, ObserveEntry(r))]
    /\ persist_calls' = [persist_calls EXCEPT ![r] = Append(@, CurrentObservation(r).step_id)]
    /\ Terminate(r, "StateError")
    /\ UNCHANGED << context, replan_count, plan, all_observations, persist_idx,
                    execution_record,
                    engineVars, planner_calls, verdicts, audit_writes,
                    storeVars, records, orchVars, memoryVars, chatVars, next_uuid >>

\* state/mod.rs:57-63: the push under the observations lock, Ok(()); the for
\* loop of run goes on.
PersistPush(r) ==
    /\ pc[r] = "persist_push"
    /\ observations_by_plan' = PushObservation(observations_by_plan, CurrentObservation(r))
    /\ persist_idx' = [persist_idx EXCEPT ![r] = @ + 1]
    /\ pc' = [pc EXCEPT ![r] =
           IF persist_idx[r] + 1 > Len(observations[r]) THEN "verify" ELSE "persist"]
    /\ UNCHANGED << context, replan_count, plan, all_observations, reasoning_trace,
                    execution_record, result, engineVars, logVars, tenant_by_user,
                    records, orchVars, memoryVars, chatVars, next_uuid >>

PassedCount(v) ==
    Cardinality({ i \in 1..Len(v.compliance_checks) : v.compliance_checks[i].passed })

VerifyEntries(v) ==
    << Entry("VERIFY", 0, 0, ""),
       Entry("VERIFY_RESULT", PassedCount(v), Len(v.compliance_checks), "") >>

\* A record that takes the reasoning trace as it was before verification.
ExecutionRecordEarlyTrace(r, audit_id, v, trace) ==
    [ audit_id |-> audit_id,
      tenant_id |-> GoalOf(r).tenant_id,
      user_id |-> GoalOf(r).user_id,
      goal |-> GoalOf(r),
      context_snapshot_hash |-> ComputeContextHash(GoalOf(r)),
      plan |-> plan[r],
      observations |-> all_observations[r],
      verification_result |-> v,
      final_output |-> [status |-> "success", observations |-> Len(all_observations[r])],
      reasoning_trace |-> reasoning_trace[r] ]

\* agent/mod.rs:352-368
ExecutionRecord(r, audit_id, v, trace) ==
    [ audit_id |-> audit_id,
      tenant_id |-> GoalOf(r).tenant_id,
      user_id |-> GoalOf(r).user_id,
      goal |-> GoalOf(r),
      context_snapshot_hash |-> ComputeContextHash(GoalOf(r)),
      plan |-> plan[r],
      observations |-> all_observations[r],
      verification_result |-> v,
      final_output |-> [status |-> "success", observations |-> Len(all_observations[r])],
      reasoning_trace |-> trace ]

\* A run that accepts every verdict.
AcceptsAlways(v) == TRUE

\* agent/mod.rs:343: the branch taken on the verdict.
Accepts(v) == v.verified

\* A result that carries an audit id of its own instead of the record's.
OkOtherId(audit_id, v, trace) ==
    [ kind |-> "ok",
      audit_id |-> audit_id + 1,
      risk_summary |-> v.risk_level,
      compliance_statement |-> PassedCount(v),
      reasoning_trace |-> trace ]

\* agent/mod.rs:394-407
Ok(audit_id, v, trace) ==
    [ kind |-> "ok",
      audit_id |-> audit_id,
      risk_summary |-> v.risk_level,
      compliance_statement |-> PassedCount(v),
      reasoning_trace |-> trace ]

\* agent/mod.rs:329-368: verify, the verdict accepted, COMPLETE, the
\* execution record built under a fresh audit id.
VerifyAccepted(r) ==
    /\ pc[r] = "verify"
    /\ \E ext \in [CustomNames -> BOOLEAN] :
         LET v == Verify(rules, observations[r], ext)
             trace == reasoning_trace[r] \o VerifyEntries(v)
                          \o << Entry("COMPLETE", 0, 0, "") >>
         IN /\ Accepts(v)
            /\ verdicts' = [verdicts EXCEPT ![r] = Append(@, v)]
            /\ reasoning_trace' = [reasoning_trace EXCEPT ![r] = trace]
            /\ execution_record' = [execution_record EXCEPT ![r] =
                   ExecutionRecord(r, next_uuid, v, trace)]
    /\ next_uuid' = next_uuid + 1
    /\ pc' = [pc EXCEPT ![r] = "record"]
    /\ UNCHANGED << context, replan_count, plan, all_observations, persist_idx, result,
                    engineVars, planner_calls, persist_calls, audit_writes, storeVars,
                    records, orchVars, memoryVars, chatVars >>

\* agent/mod.rs:370-407 and audit/mod.rs:27-32: AuditLog::record under the
\* write lock, then Ok(OrchestrationResult).
AuditRecord(r) ==
    /\ pc[r] = "record"
    /\ records' = Insert(records, execution_record[r].audit_id, execution_record[r])
    /\ audit_writes' = [audit_writes EXCEPT ![r] = Append(@, execution_record[r].audit_id)]
    /\ result' = [result EXCEPT ![r] =
           Ok(execution_record[r].audit_id, execution_record[r].verification_result,
              reasoning_trace[r])]
    /\ pc' = [pc EXCEPT ![r] = "completed"]
    /\ UNCHANGED << context, replan_count, plan, all_observations, persist_idx,
                    reasoning_trace, execution_record, engineVars, planner_calls,
                    persist_calls, verdicts, storeVars, orchVars, memoryVars, chatVars, next_uuid >>

\* agent/mod.rs:329-341 and 408-422: verify, the verdict refused, REPLAN.
Replan(r) ==
    /\ pc[r] = "verify"
    /\ \E ext \in [CustomNames -> BOOLEAN] :
         LET v == Verify(rules, observations[r], ext)
         IN /\ ~Accepts(v)
            /\ verdicts' = [verdicts EXCEPT ![r] = Append(@, v)]
            /\ reasoning_trace' = [reasoning_trace EXCEPT ![r] =
                   @ \o VerifyEntries(v)
                     \o << Entry("REPLAN", replan_count[r] + 1, 0, "") >>]
    /\ replan_count' = [replan_count EXCEPT ![r] = @ + 1]
    /\ pc' = [pc EXCEPT ![r] = "plan"]
    /\ UNCHANGED << context, plan, all_observations, persist_idx,
                    execution_record, result,
                    engineVars, planner_calls, persist_calls, audit_writes,
                    storeVars, records, orchVars, memoryVars, chatVars, next_uuid >>

\* Orchestrator::run
Run(r) ==
    \/ LoadContextTenant(r)
    \/ LoadContextObservations(r)
    \/ LoadContextError(r)
    \/ MaxReplansExceeded(r)
    \/ PlannerError(r)
    \/ PlanRejected(r)
    \/ PlanAccepted(r)
    \/ ExecutePlan(r)
    \/ FailFast(r)
    \/ Observe(r)
    \/ PersistTenant(r)
    \/ PersistError(r)
    \/ PersistPush(r)
    \/ VerifyAccepted(r)
    \/ AuditRecord(r)
    \/ Replan(r)

\* ------------------------------------------------------------------ specifications

InitLocals ==
    /\ context = [r \in Runs |-> [user_id |-> UserOf(r), tenant_id |-> "nil", observations |-> {}]]
    /\ replan_count = [r \in Runs |-> 0]
    /\ all_observations = [r \in Runs |-> <<>>]
    /\ persist_idx = [r \in Runs |-> 1]
    /\ reasoning_trace = [r \in Runs |-> <<>>]
    /\ execution_record = [r \in Runs |-> NoRecord]
    /\ result = [r \in Runs |-> Pending]
    /\ observations = [r \in Runs |-> <<>>]
    /\ step_outputs = [r \in Runs |-> {}]
    /\ step_idx = [r \in Runs |-> 1]
    /\ halted = [r \in Runs |-> FALSE]
    /\ invoked = [r \in Runs |-> <<>>]
    /\ tool_results = [r \in Runs |-> <<>>]
    /\ planner_calls = [r \in Runs |-> <<>>]
    /\ persist_calls = [r \in Runs |-> <<>>]
    /\ verdicts = [r \in Runs |-> <<>>]
    /\ audit_writes = [r \in Runs |-> <<>>]
    /\ observations_by_plan = << >>
    /\ tenant_by_user = << >>
    /\ records = << >>
    /\ next_uuid = 1
    /\ messages = <<>>
    /\ total_tokens = 0
    /\ histories = [c \in Conversations |-> EmptyHistory]
    /\ history = [r \in Runs |-> EmptyHistory]

\* The orchestrators explored: the planner and the verification rules each
\* was built with.
Orchestrators ==
    { [planner |-> "varied", rules |-> DefaultRules],
      [planner |-> "mock", rules |-> DefaultRules],
      [planner |-> "gemini", rules |-> Append(DefaultRules, CustomRule)] }

\* The orchestrator after Orchestrator::new and before any request: the
\* stores are empty.
Init ==
    /\ InitLocals
    /\ pc = [r \in Runs |-> "idle"]
    /\ plan = [r \in Runs |-> NoPlan]
    /\ \E o \in Orchestrators : planner = o.planner /\ rules = o.rules
    /\ config = DefaultConfig

\* One call of run.
Next == Run("r1")

Spec == Init /\ [][Next]_vars

\* One call of run in which every call to the planner, the tools, the state
\* store and the audit log returns: run always takes its next step.
SpecFair == Init /\ [][Next]_vars /\ WF_vars(Next)

\* Two calls of run at the same time on one orchestrator.
InitConc ==
    /\ InitLocals
    /\ pc = [r \in Runs |-> "idle"]
    /\ plan = [r \in Runs |-> NoPlan]
    /\ planner = "by_goal"
    /\ config = DefaultConfig
    /\ rules = DefaultRules

NextConc == \E r \in Runs : Run(r)

SpecConc == InitConc /\ [][NextConc]_vars

\* execute_plan called on its own, as the engine's test does, with any plan
\* of the bounded set and the default registry.
InitExec ==
    /\ InitLocals
    /\ pc = [r \in Runs |-> IF r = "r1" THEN "execute" ELSE "idle"]
    /\ \E steps \in EngineInputs :
         plan = [r \in Runs |-> IF r = "r1" THEN [plan_id |-> << r, 1 >>, steps |-> steps]
                                ELSE NoPlan]
    /\ planner = "mock"
    /\ config = DefaultConfig
    /\ rules = DefaultRules

NextExec == ExecutePlan("r1")

SpecExec == InitExec /\ [][NextExec]_vars

\* ------------------------------------------------------------------ verify on its own

\* The rules an engine can be given: the two default rules and, by add_rule,
\* a rule of any severity.
RuleSet ==
    { DefaultRules[1], DefaultRules[2] }
        \cup { [name |-> n, risk_level |-> l] : n \in CustomNames,
                                                l \in {Low, Medium, High, Critical} }

\* VerificationEngine.rules after at most MaxRules calls of add_rule.
RuleSeqs == UNION { [1..n -> RuleSet] : n \in 0..MaxRules }

\* The observation of test_verification, with the given status.
TestObservation(i, status) ==
    [ plan_id |-> << "test", 1 >>,
      step_id |-> << << "test", 1 >>, i >>,
      tenant_id |-> "t1",
      user_id |-> "u1",
      tool_name |-> "test",
      tool_output |-> [error |-> "", missing |-> {}],
      status |-> status ]

\* The observation lists verify is given: none, all Success, one Failed, one
\* Skipped.
TestObservationLists ==
    { <<>>,
      << TestObservation(1, Success) >>,
      << TestObservation(1, Success), TestObservation(2, Failed) >>,
      << TestObservation(1, Skipped), TestObservation(2, Success) >> }

\* verification/mod.rs:51-101: one call of VerificationEngine::verify.
VerifyCall(r) ==
    /\ pc[r] = "verify_call"
    /\ \E ext \in [CustomNames -> BOOLEAN] :
         verdicts' = [verdicts EXCEPT ![r] = Append(@, Verify(rules, observations[r], ext))]
    /\ pc' = [pc EXCEPT ![r] = "verify_returned"]
    /\ UNCHANGED << runVars, engineVars, planner_calls, persist_calls, audit_writes,
                    storeVars, records, orchVars, memoryVars, chatVars, next_uuid >>

\* verify called on its own, as test_verification does, on an engine with any
\* rule list of the bounded set.
InitVerify ==
    /\ context = [r \in Runs |-> [user_id |-> UserOf(r), tenant_id |-> "nil", observations |-> {}]]
    /\ replan_count = [r \in Runs |-> 0]
    /\ all_observations = [r \in Runs |-> <<>>]
    /\ persist_idx = [r \in Runs |-> 1]
    /\ reasoning_trace = [r \in Runs |-> <<>>]
    /\ execution_record = [r \in Runs |-> NoRecord]
    /\ result = [r \in Runs |-> Pending]
    /\ \E obs \in TestObservationLists :
         observations = [r \in Runs |-> IF r = "r1" THEN obs ELSE <<>>]
    /\ step_outputs = [r \in Runs |-> {}]
    /\ step_idx = [r \in Runs |-> 1]
    /\ halted = [r \in Runs |-> FALSE]
    /\ invoked = [r \in Runs |-> <<>>]
    /\ tool_results = [r \in Runs |-> <<>>]
    /\ planner_calls = [r \in Runs |-> <<>>]
    /\ persist_calls = [r \in Runs |-> <<>>]
    /\ verdicts = [r \in Runs |-> <<>>]
    /\ audit_writes = [r \in Runs |-> <<>>]
    /\ observations_by_plan = << >>
    /\ tenant_by_user = << >>
    /\ records = << >>
    /\ next_uuid = 1
    /\ messages = <<>>
    /\ total_tokens = 0
    /\ histories = [c \in Conversations |-> EmptyHistory]
    /\ history = [r \in Runs |-> EmptyHistory]
    /\ pc = [r \in Runs |-> IF r = "r1" THEN "verify_call" ELSE "idle"]
    /\ plan = [r \in Runs |-> NoPlan]
    /\ planner = "mock"
    /\ config = DefaultConfig
    /\ \E rs \in RuleSeqs : rules = rs

NextVerify == VerifyCall("r1")

SpecVerify == InitVerify /\ [][NextVerify]_vars

\* ------------------------------------------------------------------ audit log on its own

\* The audit ids and creation times of the records given to AuditLog::record.
AuditIds == 1..MaxAuditIds
Times == 1..MaxTime

\* A goal whose content differs from the goal of run g.
OtherGoal(g) == [GoalOf(g) EXCEPT !.goal_id = "other"]

\* An ExecutionRecord a caller of record hands in: its goal is the goal of g,
\* its hash is the hash of that goal or, when stale, of another content.
ClientRecord(audit_id, g, stale, t) ==
    [ audit_id |-> audit_id,
      tenant_id |-> TenantOf(g),
      user_id |-> UserOf(g),
      goal |-> GoalOf(g),
      context_snapshot_hash |->
          IF stale THEN ComputeContextHash(OtherGoal(g)) ELSE ComputeContextHash(GoalOf(g)),
      created_at |-> t ]

\* The records handed in: any id, either user, any creation time, and for
\* each id and user one whose hash is stale.
ClientRecords ==
    { ClientRecord(a, g, FALSE, t) : a \in AuditIds, g \in Runs, t \in Times }
        \cup { ClientRecord(a, g, TRUE, 1) : a \in AuditIds, g \in Runs }

\* tokio::sync::RwLock on AuditLog.records: who holds the write guard, who
\* holds a read guard.
WriteLocked(r) == pc[r] = "record_locked"
ReadLocked(r) == pc[r] \in {"get_locked", "list_locked", "integrity_locked"}

\* A write lock that is granted whoever holds the lock.
CanWriteAlways(r) == TRUE

\* audit/mod.rs:29: records.write().await is granted when nobody holds a guard.
CanWrite(r) == \A o \in Runs \ {r} : ~WriteLocked(o) /\ ~ReadLocked(o)

\* audit/mod.rs:36, 42, 58: records.read().await is granted when nobody
\* holds the write guard.
CanRead(r) == \A o \in Runs \ {r} : ~WriteLocked(o)

\* An integrity check that only asks whether the record is there.
VerifyIntegrityPresent(audit_id) == audit_id \in DOMAIN records

\* audit/mod.rs:57-66: AuditLog::verify_integrity
VerifyIntegrity(audit_id) ==
    IF audit_id \in DOMAIN records
    THEN ComputeContextHash(records[audit_id].goal) = records[audit_id].context_snapshot_hash
    ELSE FALSE

\* audit/mod.rs:44-48: the ids of the records of the user.
IdsOfUser(user) == { a \in DOMAIN records : records[a].user_id = user }

\* A listing that does not sort.
ListForUserUnsorted(user) ==
    { s \in [1..Cardinality(IdsOfUser(user)) -> IdsOfUser(user)] :
        \A i, j \in DOMAIN s : s[i] = s[j] => i = j }

\* audit/mod.rs:41-54: AuditLog::list_for_user. The HashMap is iterated in an
\* order of its own and sort_by_key keeps the order of equal keys, so every
\* arrangement of the user's ids that ascends in created_at can be returned.
ListForUser(user) ==
    { s \in [1..Cardinality(IdsOfUser(user)) -> IdsOfUser(user)] :
        /\ \A i, j \in DOMAIN s : s[i] = s[j] => i = j
        /\ \A i, j \in DOMAIN s :
             i < j => records[s[i]].created_at <= records[s[j]].created_at }

\* A caller's return to the state between two calls.
ClientFrame ==
    UNCHANGED << context, replan_count, plan, all_observations, persist_idx,
                 reasoning_trace, engineVars, planner_calls, persist_calls, verdicts,
                 storeVars, orchVars, memoryVars, chatVars, next_uuid >>

\* audit/mod.rs:27-29: record is called with one of the given records and
\* takes the write guard.
RecordLockOf(r, given) ==
    /\ pc[r] = "client"
    /\ Len(audit_writes[r]) < MaxRecordCalls
    /\ CanWrite(r)
    /\ \E rec \in given :
         execution_record' = [execution_record EXCEPT ![r] = rec]
    /\ pc' = [pc EXCEPT ![r] = "record_locked"]
    /\ UNCHANGED << result, audit_writes, records >>
    /\ ClientFrame

\* audit/mod.rs:30-32: the insert, Ok(audit_id), the guard dropped.
RecordInsert(r) ==
    /\ pc[r] = "record_locked"
    /\ records' = Insert(records, execution_record[r].audit_id, execution_record[r])
    /\ audit_writes' = [audit_writes EXCEPT ![r] = Append(@, execution_record[r].audit_id)]
    /\ result' = [result EXCEPT ![r] =
           [kind |-> "recorded", audit_id |-> execution_record[r].audit_id]]
    /\ execution_record' = [execution_record EXCEPT ![r] = NoRecord]
    /\ pc' = [pc EXCEPT ![r] = "client"]
    /\ ClientFrame

\* audit/mod.rs:35-36: get is called and takes a read guard.
GetLock(r) ==
    /\ pc[r] = "client"
    /\ CanRead(r)
    /\ \E a \in AuditIds : result' = [result EXCEPT ![r] = [kind |-> "get", audit_id |-> a]]
    /\ pc' = [pc EXCEPT ![r] = "get_locked"]
    /\ UNCHANGED << execution_record, audit_writes, records >>
    /\ ClientFrame

\* audit/mod.rs:37: Ok(records.get(&audit_id).cloned())
GetReturn(r) ==
    /\ pc[r] = "get_locked"
    /\ result' = [result EXCEPT ![r] =
           [kind |-> "got", audit_id |-> result[r].audit_id,
            value |-> AuditGet(result[r].audit_id)]]
    /\ pc' = [pc EXCEPT ![r] = "client"]
    /\ UNCHANGED << execution_record, audit_writes, records >>
    /\ ClientFrame

\* audit/mod.rs:41-42: list_for_user is called and takes a read guard.
ListLock(r) ==
    /\ pc[r] = "client"
    /\ CanRead(r)
    /\ \E g \in Runs : result' = [result EXCEPT ![r] = [kind |-> "list", user_id |-> UserOf(g)]]
    /\ pc' = [pc EXCEPT ![r] = "list_locked"]
    /\ UNCHANGED << execution_record, audit_writes, records >>
    /\ ClientFrame

\* audit/mod.rs:44-53
ListReturn(r) ==
    /\ pc[r] = "list_locked"
    /\ \E s \in ListForUser(result[r].user_id) :
         result' = [result EXCEPT ![r] =
             [kind |-> "listed", user_id |-> result[r].user_id, value |-> s]]
    /\ pc' = [pc EXCEPT ![r] = "client"]
    /\ UNCHANGED << execution_record, audit_writes, records >>
    /\ ClientFrame

\* audit/mod.rs:57-58: verify_integrity is called and takes a read guard.
IntegrityLock(r) ==
    /\ pc[r] = "client"
    /\ CanRead(r)
    /\ \E a \in AuditIds :
         result' = [result EXCEPT ![r] = [kind |-> "integrity", audit_id |-> a]]
    /\ pc' = [pc EXCEPT ![r] = "integrity_locked"]
    /\ UNCHANGED << execution_record, audit_writes, records >>
    /\ ClientFrame

\* audit/mod.rs:60-65
IntegrityReturn(r) ==
    /\ pc[r] = "integrity_locked"
    /\ result' = [result EXCEPT ![r] =
           [kind |-> "checked", audit_id |-> result[r].audit_id,
            value |-> VerifyIntegrity(result[r].audit_id)]]
    /\ pc' = [pc EXCEPT ![r] = "client"]
    /\ UNCHANGED << execution_record, audit_writes, records >>
    /\ ClientFrame

RecordLock(r) == RecordLockOf(r, ClientRecords)

\* A caller of the audit log.
AuditClient(r) ==
    \/ RecordLock(r)
    \/ RecordInsert(r)
    \/ GetLock(r)
    \/ GetReturn(r)
    \/ ListLock(r)
    \/ ListReturn(r)
    \/ IntegrityLock(r)
    \/ IntegrityReturn(r)

\* An empty log (AuditLog::new) and one caller.
InitAudit ==
    /\ InitLocals
    /\ pc = [r \in Runs |-> IF r = "r1" THEN "client" ELSE "idle"]
    /\ plan = [r \in Runs |-> NoPlan]
    /\ planner = "mock"
    /\ config = DefaultConfig
    /\ rules = DefaultRules

NextAudit == AuditClient("r1")

SpecAudit == InitAudit /\ [][NextAudit]_vars

\* The records a caller hands in when two callers share the log: its own
\* user's, under any id.
OwnRecords(r) == { ClientRecord(a, r, FALSE, 1) : a \in AuditIds }

\* A caller that records, gets and lists.
SharingClient(r) ==
    \/ RecordLockOf(r, OwnRecords(r))
    \/ RecordInsert(r)
    \/ GetLock(r)
    \/ GetReturn(r)
    \/ ListLock(r)
    \/ ListReturn(r)

\* An empty log shared by two callers.
InitAuditConc ==
    /\ InitLocals
    /\ pc = [r \in Runs |-> "client"]
    /\ plan = [r \in Runs |-> NoPlan]
    /\ planner = "mock"
    /\ config = DefaultConfig
    /\ rules = DefaultRules

NextAuditConc == \E r \in Runs : SharingClient(r)

SpecAuditConc == InitAuditConc /\ [][NextAuditConc]_vars

\* ------------------------------------------------------------------ conversation history

\* The values of a usize.
UsizeRange == 2 ^ UsizeBits

\* ConversationMessage::new and ::summary: let token_count = (len + 3) / 4.
TokenCount(len) == (len + 3) \div 4

\* ConversationMessage::new(role, content, message_type).
NewMessage(id, len) ==
    [message_id |-> id, token_count |-> TokenCount(len), is_summary |-> FALSE]

\* ConversationMessage::summary(summary_content).
SummaryMessage(id, len) ==
    [message_id |-> id, token_count |-> TokenCount(len), is_summary |-> TRUE]

\* A message built from a stored row: its token count is the row's i32
\* clamped at zero, its summary flag the row's.
LoadedMessage(id, tokens, summary) ==
    [message_id |-> id, token_count |-> tokens, is_summary |-> summary]

\* self.total_tokens += message.token_count, on a usize.
AddTokens(total, count) == (total + count) % UsizeRange

SubtractNothing(total, count) == total
\* usize::saturating_sub.
SaturatingSub(total, count) == IF total >= count THEN total - count ELSE 0

\* self.messages.iter().map(|m| m.token_count).sum(), on a usize.
RECURSIVE SumTokens(_)
SumTokens(msgs) ==
    IF msgs = <<>> THEN 0
    ELSE AddTokens(SumTokens(Tail(msgs)), Head(msgs).token_count)

\* The summary messages among msgs.
SummaryCount(msgs) == Cardinality({ i \in DOMAIN msgs : msgs[i].is_summary })

RECURSIVE PopFrontWhileAtLeast(_, _)
PopFrontWhileAtLeast(msgs, target_count) ==
    IF Len(msgs) >= target_count /\ msgs # <<>>
      THEN PopFrontWhileAtLeast(Tail(msgs), target_count)
      ELSE msgs
\* while self.messages.len() > target_count { self.messages.pop_front(); }
RECURSIVE PopFrontWhileOver(_, _)
PopFrontWhileOver(msgs, target_count) ==
    IF Len(msgs) > target_count THEN PopFrontWhileOver(Tail(msgs), target_count)
    ELSE msgs

MemoryFrame ==
    UNCHANGED << pc, runVars, engineVars, logVars, storeVars, records, orchVars,
                 chatVars >>

\* ConversationHistory::add_message, given any message the constructors
\* build.
AddMessage ==
    /\ next_uuid <= MaxMessages
    /\ \E len \in 0..MaxContentLen :
         \E message \in { NewMessage(next_uuid, len), SummaryMessage(next_uuid, len) } :
           /\ total_tokens' = AddTokens(total_tokens, message.token_count)
           /\ messages' = Append(messages, message)
    /\ next_uuid' = next_uuid + 1
    /\ MemoryFrame

\* ConversationHistory::add_existing_message, given any stored message.
AddExistingMessage ==
    /\ next_uuid <= MaxMessages
    /\ \E tokens \in 0..MaxLoadedTokens, summary \in BOOLEAN :
         LET message == LoadedMessage(next_uuid, tokens, summary) IN
           /\ total_tokens' = AddTokens(total_tokens, message.token_count)
           /\ messages' = Append(messages, message)
    /\ next_uuid' = next_uuid + 1
    /\ MemoryFrame

\* ConversationHistory::remove_oldest: pop_front, and the counter goes down
\* by the popped message's count; nothing changes on an empty history.
RemoveOldest ==
    /\ IF messages = <<>>
         THEN UNCHANGED memoryVars
         ELSE /\ messages' = Tail(messages)
              /\ total_tokens' = SaturatingSub(total_tokens, Head(messages).token_count)
    /\ UNCHANGED next_uuid
    /\ MemoryFrame

\* ConversationHistory::trim_to_recent(keep_count): the front is popped
\* down to keep_count plus the number of summaries, then the counter is
\* recomputed.
TrimToRecent ==
    /\ \E keep_count \in 0..MaxKeep :
         LET target_count == keep_count + SummaryCount(messages) IN
           /\ messages' = PopFrontWhileOver(messages, target_count)
           /\ total_tokens' = SumTokens(messages')
    /\ UNCHANGED next_uuid
    /\ MemoryFrame

\* ConversationHistory::clear.
Clear ==
    /\ messages' = <<>>
    /\ total_tokens' = 0
    /\ UNCHANGED next_uuid
    /\ MemoryFrame

\* ConversationHistory::new: no message, a counter of zero.
InitMemory ==
    /\ InitLocals
    /\ pc = [r \in Runs |-> "idle"]
    /\ plan = [r \in Runs |-> NoPlan]
    /\ planner = "mock"
    /\ config = DefaultConfig
    /\ rules = DefaultRules

NextMemory ==
    \/ AddMessage
    \/ AddExistingMessage
    \/ RemoveOldest
    \/ TrimToRecent
    \/ Clear

SpecMemory == InitMemory /\ [][NextMemory]_vars

\* ------------------------------------------------------------------ context manager

\* The smaller of two numbers.
Min(a, b) == IF a <= b THEN a ELSE b

\* should_summarize: (max_context_tokens as f32 * summarization_threshold)
\* as usize, the cast truncating.
ThresholdTokens(c) ==
    (c.max_context_tokens * c.summarization_threshold) \div 100

ShouldSummarizeAtMin(c, msgs, total) ==
    /\ total >= ThresholdTokens(c)
    /\ Len(msgs) >= c.min_messages_to_keep
\* ContextManager::should_summarize, of a history holding msgs and the
\* counter total.
ShouldSummarize(c, msgs, total) ==
    /\ total >= ThresholdTokens(c)
    /\ Len(msgs) > c.min_messages_to_keep

\* ConversationHistory::recent_messages(count): iter().rev().take(count),
\* the most recent message first.
RecentMessages(msgs, count) ==
    [i \in 1..Min(count, Len(msgs)) |-> msgs[Len(msgs) - i + 1]]

GetMessagesToSummarizeUnfiltered(msgs, until_index) ==
    SubSeq(msgs, 1, Min(until_index, Len(msgs)))
\* ConversationHistory::get_messages_to_summarize(until_index):
\* iter().take(until_index).filter(|m| !m.is_summary).
GetMessagesToSummarize(msgs, until_index) ==
    SelectSeq(SubSeq(msgs, 1, Min(until_index, Len(msgs))),
              LAMBDA m : ~m.is_summary)

\* ContextManager::get_messages_to_archive.
GetMessagesToArchive(c, msgs) ==
    LET recent_count == c.preserve_recent_count
        total == Len(msgs)
    IN  IF total <= recent_count THEN <<>>
        ELSE GetMessagesToSummarize(msgs, total - recent_count)

RECURSIVE PushAll(_, _)
PushAll(ctx, recent) ==
    IF recent = <<>> THEN ctx
    ELSE PushAll(Append(ctx, Head(recent)), Tail(recent))
\* prepare_context_for_llm, second loop: a recent message is pushed unless
\* the context holds a message of its id.
RECURSIVE PushAbsent(_, _)
PushAbsent(ctx, recent) ==
    IF recent = <<>> THEN ctx
    ELSE LET msg == Head(recent)
             exists == \E i \in DOMAIN ctx : ctx[i].message_id = msg.message_id
         IN  PushAbsent(IF exists THEN ctx ELSE Append(ctx, msg), Tail(recent))

\* ContextManager::prepare_context_for_llm: the summaries in history order,
\* then the recent messages not yet there.
PrepareContextForLlm(c, msgs) ==
    PushAbsent(SelectSeq(msgs, LAMBDA m : m.is_summary),
               RecentMessages(msgs, c.preserve_recent_count))

\* The configurations explored.  should_summarize reads min_messages_to_keep
\* and never preserve_recent_count, the other functions the reverse, so the
\* two are varied together.
Configs ==
    { [max_context_tokens |-> MaxContextTokens, summarization_threshold |-> p,
       min_messages_to_keep |-> n, preserve_recent_count |-> n] :
        p \in {50, 80}, n \in 0..MaxPreserve }

\* A caller building the history it will hand to the context manager.
BuildHistory(r) ==
    /\ pc[r] = "history"
    /\ \/ AddMessage
       \/ AddExistingMessage
       \/ RemoveOldest
       \/ TrimToRecent
       \/ Clear

\* A call of the function named kind, returning value.
Returns(r, kind, value) ==
    /\ pc[r] = "history"
    /\ pc' = [pc EXCEPT ![r] = "returned"]
    /\ result' = [result EXCEPT ![r] = [kind |-> kind, value |-> value]]
    /\ UNCHANGED << context, replan_count, plan, all_observations, persist_idx,
                    reasoning_trace, execution_record, engineVars, logVars,
                    storeVars, records, orchVars, memoryVars, chatVars, next_uuid >>

ShouldSummarizeCall(r) ==
    Returns(r, "should_summarize", ShouldSummarize(config, messages, total_tokens))

GetMessagesToArchiveCall(r) ==
    Returns(r, "archive", GetMessagesToArchive(config, messages))

PrepareContextCall(r) ==
    Returns(r, "context", PrepareContextForLlm(config, messages))

\* history.trim_to_recent(keep_count) with the manager's
\* preserve_recent_count; the history before the call is kept for
\* comparison.
TrimCall(r) ==
    /\ pc[r] = "history"
    /\ pc' = [pc EXCEPT ![r] = "returned"]
    /\ LET keep_count == config.preserve_recent_count
           target_count == keep_count + SummaryCount(messages)
       IN  /\ messages' = PopFrontWhileOver(messages, target_count)
           /\ total_tokens' = SumTokens(messages')
           /\ result' = [result EXCEPT ![r] =
                           [kind |-> "trimmed", value |-> messages]]
    /\ UNCHANGED << context, replan_count, plan, all_observations, persist_idx,
                    reasoning_trace, execution_record, engineVars, logVars,
                    storeVars, records, orchVars, chatVars, next_uuid >>

InitContext ==
    /\ InitLocals
    /\ pc = [r \in Runs |-> IF r = "r1" THEN "history" ELSE "idle"]
    /\ plan = [r \in Runs |-> NoPlan]
    /\ planner = "mock"
    /\ rules = DefaultRules
    /\ config \in Configs

NextContext ==
    \/ BuildHistory("r1")
    \/ ShouldSummarizeCall("r1")
    \/ GetMessagesToArchiveCall("r1")
    \/ PrepareContextCall("r1")
    \/ TrimCall("r1")

SpecContext == InitContext /\ [][NextContext]_vars

\* ------------------------------------------------------------------ handle_conversational_with_memory

\* The manager of the global ConversationMemory is ContextManager::new();
\* its default configuration is scaled to the histories explored, with
\* min_messages_to_keep below preserve_recent_count as in the default.
ChatConfig ==
    [max_context_tokens |-> MaxContextTokens, summarization_threshold |-> 80,
     min_messages_to_keep |-> 1, preserve_recent_count |-> MaxPreserve]

\* The byte lengths of the queries, summaries and answers explored.
ChatContentLens == {0, MaxContentLen}

\* add_message on a history value.
HistoryAdd(h, message) ==
    [messages |-> Append(h.messages, message),
     total_tokens |-> AddTokens(h.total_tokens, message.token_count)]

\* trim_to_recent on a history value.
HistoryTrim(h, keep_count) ==
    LET target_count == keep_count + SummaryCount(h.messages)
        kept == PopFrontWhileOver(h.messages, target_count)
    IN  [messages |-> kept, total_tokens |-> SumTokens(kept)]

ChatFrame ==
    UNCHANGED << context, replan_count, plan, all_observations, persist_idx,
                 reasoning_trace, execution_record, engineVars, logVars,
                 storeVars, records, orchVars, memoryVars >>

\* get_or_create_history with the in-memory backend: a clone of the stored
\* history of the conversation (a new history is stored first when none is).
ChatLoad(r) ==
    /\ pc[r] \in {"chat", "answered", "chat_failed"}
    /\ next_uuid <= MaxChatIds
    /\ pc' = [pc EXCEPT ![r] = "loaded"]
    /\ history' = [history EXCEPT ![r] = histories[ConversationOf(r)]]
    /\ result' = [result EXCEPT ![r] = Pending]
    /\ UNCHANGED << histories, next_uuid >>
    /\ ChatFrame

\* history.add_message(user_message).
ChatAddQuery(r) ==
    /\ pc[r] = "loaded"
    /\ pc' = [pc EXCEPT ![r] = "estimate"]
    /\ \E len \in ChatContentLens :
         history' = [history EXCEPT ![r] = HistoryAdd(@, NewMessage(next_uuid, len))]
    /\ next_uuid' = next_uuid + 1
    /\ UNCHANGED << histories, result >>
    /\ ChatFrame

\* estimate_need_for_summary, and get_messages_to_archive when it says to
\* summarize: a round starts when the archive is not empty.
ChatEstimate(r) ==
    /\ pc[r] = "estimate"
    /\ LET h == history[r]
           round == /\ ShouldSummarize(config, h.messages, h.total_tokens)
                    /\ GetMessagesToArchive(config, h.messages) # <<>>
       IN  pc' = [pc EXCEPT ![r] = IF round THEN "summarize" ELSE "prepare"]
    /\ UNCHANGED << chatVars, result, next_uuid >>
    /\ ChatFrame

\* summarize_messages returned Ok: the summary is added, then the history is
\* trimmed to preserve_recent_count.
ChatSummarizeOk(r) ==
    /\ pc[r] = "summarize"
    /\ pc' = [pc EXCEPT ![r] = "prepare"]
    /\ \E len \in ChatContentLens :
         history' = [history EXCEPT ![r] =
                       HistoryTrim(HistoryAdd(@, SummaryMessage(next_uuid, len)),
                                   config.preserve_recent_count)]
    /\ next_uuid' = next_uuid + 1
    /\ UNCHANGED << histories, result >>
    /\ ChatFrame

\* summarize_messages returned Err: the request goes on without a summary.
ChatSummarizeErr(r) ==
    /\ pc[r] = "summarize"
    /\ pc' = [pc EXCEPT ![r] = "prepare"]
    /\ UNCHANGED << chatVars, result, next_uuid >>
    /\ ChatFrame

\* let context_messages = context_manager.prepare_context_for_llm(&history).
ChatPrepare(r) ==
    /\ pc[r] = "prepare"
    /\ pc' = [pc EXCEPT ![r] = "llm"]
    /\ result' = [result EXCEPT ![r] =
                    [kind |-> "context",
                     value |-> PrepareContextForLlm(config, history[r].messages)]]
    /\ UNCHANGED << chatVars, next_uuid >>
    /\ ChatFrame

\* call_gemini_api returned Ok: the answer is added, the history saved
\* (histories.insert(key, history.clone())) and the response returned.
ChatAnswer(r) ==
    /\ pc[r] = "llm"
    /\ pc' = [pc EXCEPT ![r] = "answered"]
    /\ \E len \in ChatContentLens :
         history' = [history EXCEPT ![r] = HistoryAdd(@, NewMessage(next_uuid, len))]
    /\ histories' = [histories EXCEPT ![ConversationOf(r)] = history'[r]]
    /\ next_uuid' = next_uuid + 1
    /\ result' = [result EXCEPT ![r] = [kind |-> "ok"]]
    /\ ChatFrame

\* A handler that saves its history before it returns the error.
ChatLlmErrSaves(r) ==
    /\ pc[r] = "llm"
    /\ pc' = [pc EXCEPT ![r] = "chat_failed"]
    /\ result' = [result EXCEPT ![r] = Err("PlanningError")]
    /\ histories' = [histories EXCEPT ![ConversationOf(r)] = history[r]]
    /\ UNCHANGED << history, next_uuid >>
    /\ ChatFrame

\* call_gemini_api returned Err: the request returns the error, nothing is
\* saved.
ChatLlmErr(r) ==
    /\ pc[r] = "llm"
    /\ pc' = [pc EXCEPT ![r] = "chat_failed"]
    /\ result' = [result EXCEPT ![r] = Err("PlanningError")]
    /\ UNCHANGED << chatVars, next_uuid >>
    /\ ChatFrame

HandleConversationalWithMemory(r) ==
    \/ ChatLoad(r)
    \/ ChatAddQuery(r)
    \/ ChatEstimate(r)
    \/ ChatSummarizeOk(r)
    \/ ChatSummarizeErr(r)
    \/ ChatPrepare(r)
    \/ ChatAnswer(r)
    \/ ChatLlmErr(r)

\* The memory after ConversationMemory::new with the in-memory backend.
InitChat ==
    /\ InitLocals
    /\ pc = [r \in Runs |-> IF r = "r1" THEN "chat" ELSE "idle"]
    /\ plan = [r \in Runs |-> NoPlan]
    /\ planner = "mock"
    /\ rules = DefaultRules
    /\ config = ChatConfig

NextChat == HandleConversationalWithMemory("r1")

SpecChat == InitChat /\ [][NextChat]_vars

\* Two requests for the same conversation handled at once (api.rs spawns a
\* task per request; the memory is shared through get_memory).
InitChatConc ==
    /\ InitLocals
    /\ pc = [r \in Runs |-> "chat"]
    /\ plan = [r \in Runs |-> NoPlan]
    /\ planner = "mock"
    /\ rules = DefaultRules
    /\ config = ChatConfig

\* One request of run r: the handler is entered once.
HandleOnce(r) ==
    \/ pc[r] = "chat" /\ ChatLoad(r)
    \/ ChatAddQuery(r)
    \/ ChatEstimate(r)
    \/ ChatSummarizeOk(r)
    \/ ChatSummarizeErr(r)
    \/ ChatPrepare(r)
    \/ ChatAnswer(r)
    \/ ChatLlmErr(r)

NextChatConc == \E r \in Runs : HandleOnce(r)

SpecChatConc == InitChatConc /\ [][NextChatConc]_vars

\* ------------------------------------------------------------------ properties

Ended(r) == pc[r] \in {"completed", "error"}

EndedWith(r, error) ==
    pc[r] = "error" /\ result[r].kind = "err" /\ result[r].error = error

\* The number of elements of the sequence s that equal x.
Count(s, x) == Cardinality({ i \in 1..Len(s) : s[i] = x })

\* The observations the engine holds belong to the plan the run holds (they
\* are those of the previous attempt until execute_plan starts again).
ObservationsOfPlan(r) ==
    \A i \in 1..Len(observations[r]) : observations[r][i].plan_id = plan[r].plan_id

\* C1: in one call of run the planner is invoked at most
\* MAX_REPLAN_ATTEMPTS + 1 = 6 times, and a run whose six attempts all failed
\* verification has ended with the max-replans error after exactly six
\* planner calls.
C1_PlannerCallsBounded ==
    \A r \in Runs :
      /\ MAX_REPLAN_ATTEMPTS + 1 = 6
      /\ Len(planner_calls[r]) <= MAX_REPLAN_ATTEMPTS + 1
      /\ Len(verdicts[r]) <= Len(planner_calls[r])
      /\ ( /\ Ended(r)
           /\ Len(verdicts[r]) = 6
           /\ \A i \in 1..Len(verdicts[r]) : ~verdicts[r][i].verified )
         => /\ EndedWith(r, "MaxReplansExceeded")
            /\ Len(planner_calls[r]) = 6

C1_Witness ==
    /\ EndedWith("r1", "MaxReplansExceeded")
    /\ Len(planner_calls["r1"]) = 6
    /\ Len(verdicts["r1"]) = 6

\* C2: a run writes an execution record only after one of its verifications
\* returned verified = true, never more than one, and a run that has ended
\* has written exactly one record if a verification returned true and none
\* if it ended in an error.
C2_RecordIffVerified ==
    \A r \in Runs :
      LET verified == \E i \in 1..Len(verdicts[r]) : verdicts[r][i].verified
      IN /\ Len(audit_writes[r]) <= 1
         /\ audit_writes[r] # <<>> => verified
         /\ Ended(r) => (Len(audit_writes[r]) = 1 <=> verified)
         /\ pc[r] = "error" => audit_writes[r] = <<>>
         /\ \A i \in 1..Len(audit_writes[r]) :
              /\ audit_writes[r][i] \in DOMAIN records
              /\ records[audit_writes[r][i]].goal = GoalOf(r)
         /\ Cardinality({ a \in DOMAIN records : records[a].goal = GoalOf(r) })
               = Len(audit_writes[r])

C2_Witness ==
    /\ pc["r1"] = "completed"
    /\ Len(audit_writes["r1"]) = 1
    /\ Len(verdicts["r1"]) = 3
    /\ verdicts["r1"][3].verified

\* An earlier step of the plan ended with status Success for order k.
EarlierSuccess(r, i, k) ==
    \E j \in 1..(i - 1) :
      /\ plan[r].steps[j].order = k
      /\ observations[r][j].status = Success

\* C3: a step that declares a dependency on an order for which no earlier
\* step of the sequence ended with Success has a Skipped observation and its
\* tool is never invoked.
C3_UnmetDependencySkipped ==
    \A i \in 1..Len(observations["r1"]) :
      \A k \in plan["r1"].steps[i].dependencies :
        ~EarlierSuccess("r1", i, k)
          => /\ observations["r1"][i].status = Skipped
             /\ Count(invoked["r1"], i) = 0

\* The second step depends on order 1, which the first step produced, and on
\* order 2, which no earlier step has.
C3_Witness ==
    /\ pc["r1"] = "returned"
    /\ Len(observations["r1"]) = 2
    /\ plan["r1"].steps[1].order = 1
    /\ plan["r1"].steps[2].dependencies = {1, 2}
    /\ plan["r1"].steps[2].tool_name = "web_search"
    /\ observations["r1"][1].status = Success
    /\ observations["r1"][2].status = Skipped
    /\ invoked["r1"] = << 1 >>

HasFailed(r) == \E i \in 1..Len(observations[r]) : observations[r][i].status = Failed

\* C4: once an observation has status Failed, execute_plan processes no
\* further step (no tool invoked, no observation produced), and the list it
\* returns ends with the first Failed observation.
C4_FailFast ==
    /\ [][ HasFailed("r1") =>
             /\ observations'["r1"] = observations["r1"]
             /\ invoked'["r1"] = invoked["r1"]
             /\ step_outputs'["r1"] = step_outputs["r1"] ]_vars
    /\ [](\A i \in 1..Len(observations["r1"]) :
             observations["r1"][i].status = Failed
               => /\ Len(observations["r1"]) = (i - 1) + 1
                  /\ \A j \in 1..Len(invoked["r1"]) : invoked["r1"][j] <= i)

\* The first step failed and the second, a registered tool without
\* dependencies, was left alone.
C4_Witness ==
    /\ pc["r1"] = "returned"
    /\ Len(plan["r1"].steps) = 2
    /\ plan["r1"].steps[2].dependencies = {}
    /\ plan["r1"].steps[2].tool_name = "web_search"
    /\ Len(observations["r1"]) = 1
    /\ observations["r1"][1].status = Failed
    /\ invoked["r1"] = << 1 >>

\* What run keeps of its work: nothing of it changes once the run has ended.
RunState(r) ==
    << pc[r], replan_count[r], plan[r], reasoning_trace[r], result[r],
       planner_calls[r], persist_calls[r], verdicts[r], audit_writes[r],
       observations[r], invoked[r] >>

\* C5: when the plan has exactly one step and its observation is not Success,
\* the next step of run returns the execution error: no verification, no
\* planner call, no trace entry, no persisted observation, no audit record.
C5_SingleStepFailFast ==
    /\ [][ \A r \in Runs :
             ( /\ pc[r] = "returned"
               /\ Len(plan[r].steps) = 1
               /\ observations[r][1].status # Success
               /\ RunState(r)' # RunState(r) )
             => /\ EndedWith(r, "ExecutionError")'
                /\ verdicts'[r] = verdicts[r]
                /\ planner_calls'[r] = planner_calls[r]
                /\ reasoning_trace'[r] = reasoning_trace[r]
                /\ persist_calls'[r] = persist_calls[r]
                /\ audit_writes'[r] = audit_writes[r]
                /\ records' = records
                /\ observations_by_plan' = observations_by_plan ]_vars
    /\ [](\A r \in Runs :
            EndedWith(r, "ExecutionError")
              => /\ Len(plan[r].steps) = 1
                 /\ observations[r][1].status # Success
                 /\ Len(verdicts[r]) = Len(planner_calls[r]) - 1
                 /\ plan[r].plan_id \notin DOMAIN observations_by_plan
                 /\ audit_writes[r] = <<>>
                 /\ reasoning_trace[r][Len(reasoning_trace[r])].stage = "EXECUTE")

C5_Witness ==
    /\ EndedWith("r1", "ExecutionError")
    /\ observations["r1"][1].status = Failed
    /\ Len(planner_calls["r1"]) = 1
    /\ \A i \in 1..Len(reasoning_trace["r1"]) : reasoning_trace["r1"][i].stage # "REPLAN"

\* C6: a plan of more than MAX_STEPS_PER_PLAN = 20 steps ends the run with
\* the invalid-plan error: the engine is not called for it, none of its
\* observations exists or is persisted, no verification or replan follows
\* and no audit record is written.
C6_OversizedPlanTerminal ==
    /\ MAX_STEPS_PER_PLAN = 20
    /\ [](\A r \in Runs :
            Len(plan[r].steps) > MAX_STEPS_PER_PLAN
              => /\ EndedWith(r, "InvalidPlan")
                 /\ \A i \in 1..Len(observations[r]) :
                      observations[r][i].plan_id # plan[r].plan_id
                 /\ plan[r].plan_id \notin DOMAIN observations_by_plan
                 /\ \A i \in 1..Len(persist_calls[r]) :
                      persist_calls[r][i][1] # plan[r].plan_id
                 /\ Len(verdicts[r]) = Len(planner_calls[r]) - 1
                 /\ audit_writes[r] = <<>>)
    /\ [][ \A r \in Runs :
             Len(plan[r].steps) > MAX_STEPS_PER_PLAN => RunState(r)' = RunState(r) ]_vars

C6_Witness ==
    /\ EndedWith("r1", "InvalidPlan")
    /\ Len(plan["r1"].steps) = 21
    /\ Len(planner_calls["r1"]) = 2

\* C7 as stated: the replan counter never exceeds MAX_REPLAN_ATTEMPTS.
C7_CounterAtMostBound ==
    \A r \in Runs : replan_count[r] <= MAX_REPLAN_ATTEMPTS

\* C7 as amended: the replan counter never exceeds MAX_REPLAN_ATTEMPTS + 1;
\* it is at most MAX_REPLAN_ATTEMPTS while a plan is executed, persisted or
\* verified, and a run whose counter is above the bound is at the loop check
\* or has ended with the max-replans error.
C7_CounterAtMostBoundPlusOne ==
    \A r \in Runs :
      /\ replan_count[r] <= MAX_REPLAN_ATTEMPTS + 1
      /\ replan_count[r] > MAX_REPLAN_ATTEMPTS
           => \/ pc[r] = "plan"
              \/ EndedWith(r, "MaxReplansExceeded")
      /\ replan_count[r] = Cardinality({ i \in 1..Len(verdicts[r]) :
                                             ~verdicts[r][i].verified })

C7_Witness ==
    /\ replan_count["r1"] = MAX_REPLAN_ATTEMPTS + 1
    /\ pc["r1"] = "plan"

\* The step ids of the observations of the current plan given to
\* persist_observation, in call order.
PlanCalls(r) ==
    SelectSeq(persist_calls[r], LAMBDA id : id[1] = plan[r].plan_id)

NoRepeat(s) == \A i, j \in 1..Len(s) : s[i] = s[j] => i = j

\* C8 as stated: when the run has ended, however it ended, every observation
\* the engine returned was given to persist_observation exactly once.
C8_EveryObservationPersisted ==
    \A r \in Runs :
      (Ended(r) /\ ObservationsOfPlan(r))
        => \A i \in 1..Len(observations[r]) :
             Count(persist_calls[r], observations[r][i].step_id) = 1

\* C8 as amended: no observation is given to persist_observation twice; the
\* observations of a plan are given in step order; all of them have been
\* given, whatever their status, once the run verifies the plan; none of
\* them is given when the run ends by the single-step fast fail, and none
\* after a persist_observation call that failed.
C8_PersistedOnceUnlessAborted ==
    \A r \in Runs :
      /\ NoRepeat(persist_calls[r])
      /\ ObservationsOfPlan(r) =>
           /\ Len(PlanCalls(r)) <= Len(observations[r])
           /\ \A i \in 1..Len(PlanCalls(r)) : PlanCalls(r)[i] = observations[r][i].step_id
           /\ pc[r] \in {"verify", "record", "completed"}
                => Len(PlanCalls(r)) = Len(observations[r])
           /\ EndedWith(r, "ExecutionError") => PlanCalls(r) = <<>>
           /\ EndedWith(r, "StateError") /\ persist_calls[r] # <<>>
                => /\ Len(PlanCalls(r)) = persist_idx[r]
                   /\ Len(LoadObservations(plan[r].plan_id)) = persist_idx[r] - 1

C8_Witness ==
    /\ pc["r1"] = "verify"
    /\ Len(observations["r1"]) = 3
    /\ observations["r1"][1].status = Skipped
    /\ observations["r1"][3].status = Failed
    /\ Len(PlanCalls("r1")) = 3
    /\ Len(planner_calls["r1"]) = 2

\* C9: the i-th observation of a plan belongs to its i-th step, one
\* observation per step, and load_observations(plan_id) returns the
\* observations of the plan persisted so far in that order, all of them once
\* the persist loop is over, while another run persists its own.
C9_StepOrderKept ==
    /\ \A r \in Runs :
         ObservationsOfPlan(r) =>
           /\ Len(observations[r]) <= Len(plan[r].steps)
           /\ \A i \in 1..Len(observations[r]) :
                /\ observations[r][i].step_id = << plan[r].plan_id, i >>
                /\ observations[r][i].tool_name = plan[r].steps[i].tool_name
           /\ LoadObservations(plan[r].plan_id)
                = SubSeq(observations[r], 1, Len(LoadObservations(plan[r].plan_id)))
           /\ pc[r] \in {"verify", "record", "completed"}
                => LoadObservations(plan[r].plan_id) = observations[r]
    /\ \A p \in DOMAIN observations_by_plan :
         \A i \in 1..Len(observations_by_plan[p]) :
           observations_by_plan[p][i].step_id = << p, i >>

\* Both runs are inside persist_observation, the first for the second
\* observation of its plan.
C9_Witness ==
    /\ pc["r1"] = "persist_push"
    /\ persist_idx["r1"] = 2
    /\ pc["r2"] = "persist_push"
    /\ Len(LoadObservations(plan["r1"].plan_id)) = 1

\* C10: run has returned Ok only if the verification of the plan it just
\* executed returned verified = true, every other end of run is an error,
\* and the audit id of the result is the id of a record of the audit log,
\* the record of that plan.
C10_OkOnlyWhenVerified ==
    \A r \in Runs :
      /\ pc[r] = "completed" <=> result[r].kind = "ok"
      /\ pc[r] = "error" <=> result[r].kind = "err"
      /\ result[r].kind = "ok"
           => /\ Len(verdicts[r]) = Len(planner_calls[r])
              /\ verdicts[r][Len(verdicts[r])].verified
              /\ verdicts[r][Len(verdicts[r])] = Verify(rules, observations[r],
                     [n \in CustomNames |-> TRUE])
              /\ ObservationsOfPlan(r)
              /\ result[r].audit_id \in DOMAIN records
              /\ records[result[r].audit_id].audit_id = result[r].audit_id
              /\ records[result[r].audit_id].plan = plan[r]
              /\ records[result[r].audit_id].goal = GoalOf(r)

C10_Witness ==
    /\ result["r1"].kind = "ok"
    /\ Len(planner_calls["r1"]) = 2
    /\ AuditGet(result["r1"].audit_id) # {}

\* ------------------------------------------------------------------ C11..C20

\* The verdict of the last verify call of run r.
LastVerdict(r) == verdicts[r][Len(verdicts[r])]

\* The positions of the rules that fail on the observations of run r when the
\* added rules answer as ext says.
FailedRules(r, ext) ==
    { i \in 1..Len(rules) : ~RulePassed(rules[i], observations[r], ext) }

\* The names of the rules at the positions of the set, in registration order.
RECURSIVE NamesFrom(_, _)
NamesFrom(k, positions) ==
    IF k > Len(rules) THEN <<>>
    ELSE (IF k \in positions THEN << rules[k].name >> ELSE <<>>)
             \o NamesFrom(k + 1, positions)

\* C11: verify returns one ComplianceCheck per registered rule, in
\* registration order, each carrying the outcome of its rule (no rule is left
\* out after a failure), one issue per failed rule, and verified = true if and
\* only if no rule failed.
C11_EveryRuleChecked ==
    \A r \in Runs :
      pc[r] = "verify_returned" =>
        \E ext \in [CustomNames -> BOOLEAN] :
          LET v == LastVerdict(r)
              failed == FailedRules(r, ext)
          IN /\ Len(v.compliance_checks) = Len(rules)
             /\ \A i \in 1..Len(rules) :
                  v.compliance_checks[i] =
                      [rule_name |-> rules[i].name, passed |-> i \notin failed]
             /\ Len(v.issues) = Cardinality(failed)
             /\ v.issues = NamesFrom(1, failed)
             /\ v.verified <=> failed = {}

\* Three rules: the first and the third failed, the second passed.
C11_Witness ==
    /\ pc["r1"] = "verify_returned"
    /\ Len(rules) = 3
    /\ Len(LastVerdict("r1").compliance_checks) = 3
    /\ ~LastVerdict("r1").compliance_checks[1].passed
    /\ LastVerdict("r1").compliance_checks[2].passed
    /\ ~LastVerdict("r1").compliance_checks[3].passed
    /\ Len(LastVerdict("r1").issues) = 2
    /\ ~LastVerdict("r1").verified

\* C12: the risk level verify returns is the highest severity, under
\* Low < Medium < High < Critical, among the rules whose check failed (Low
\* when none failed); the two default rules on a list with a non-Success
\* observation give verified = false, High and exactly one issue.
C12_RiskIsMaxOfFailed ==
    /\ Rank(Low) < Rank(Medium) /\ Rank(Medium) < Rank(High) /\ Rank(High) < Rank(Critical)
    /\ \A r \in Runs :
         pc[r] = "verify_returned" =>
           LET v == LastVerdict(r)
               failed == { i \in 1..Len(v.compliance_checks) : ~v.compliance_checks[i].passed }
           IN /\ failed = {} => v.risk_level = Low
              /\ failed # {} =>
                   /\ \E i \in failed : v.risk_level = rules[i].risk_level
                   /\ \A i \in failed : Rank(rules[i].risk_level) <= Rank(v.risk_level)
              /\ ( /\ rules = DefaultRules
                   /\ \E i \in 1..Len(observations[r]) : observations[r][i].status # Success )
                 => /\ ~v.verified
                    /\ v.risk_level = High
                    /\ Len(v.issues) = 1

\* The default engine on a list with a Failed observation.
C12_Witness ==
    /\ pc["r1"] = "verify_returned"
    /\ rules = DefaultRules
    /\ \E i \in 1..Len(observations["r1"]) : observations["r1"][i].status = Failed
    /\ LastVerdict("r1").risk_level = High
    /\ Len(LastVerdict("r1").issues) = 1
    /\ ~LastVerdict("r1").verified

\* The observations execute_plan holds run up to its halt point: one per step
\* of the plan, or fewer and then ending with the only Failed one.
UpToHaltPoint(r) ==
    /\ Len(observations[r]) <= Len(plan[r].steps)
    /\ \A i \in 1..Len(observations[r]) :
         /\ observations[r][i].step_id = << plan[r].plan_id, i >>
         /\ observations[r][i].status \in {Success, Failed, Skipped}
         /\ observations[r][i].status = Failed => i = Len(observations[r])
    /\ Len(observations[r]) < Len(plan[r].steps)
         => /\ observations[r] # <<>>
            /\ observations[r][Len(observations[r])].status = Failed

\* C13: execute_plan ends in an error only for a plan of more than
\* ENGINE_MAX_STEPS_PER_PLAN = 50 steps, with the invalid-plan error and
\* before any tool is invoked or any observation made; a plan of at most 50
\* steps never ends in an error, a tool failure is a Failed observation of an
\* invoked tool, and the call returns the observations up to the halt point.
C13_ErrorOnlyOverCeiling ==
    /\ ENGINE_MAX_STEPS_PER_PLAN = 50
    /\ pc["r1"] = "error"
         => /\ Len(plan["r1"].steps) > 50
            /\ result["r1"] = Err("InvalidPlan")
            /\ invoked["r1"] = <<>>
            /\ observations["r1"] = <<>>
    /\ Len(plan["r1"].steps) > 50 => pc["r1"] \in {"execute", "error"}
    /\ Len(plan["r1"].steps) <= 50
         => /\ pc["r1"] \in {"execute", "step", "returned"}
            /\ result["r1"] = Pending
            /\ \A i \in 1..Len(observations["r1"]) :
                 observations["r1"][i].status = Failed => Count(invoked["r1"], i) = 1
            /\ pc["r1"] = "step" => ENABLED NextExec
            /\ pc["r1"] = "returned" => UpToHaltPoint("r1")

\* The plan of 51 steps was refused.
C13_Witness ==
    /\ pc["r1"] = "error"
    /\ Len(plan["r1"].steps) = ENGINE_MAX_STEPS_PER_PLAN + 1
    /\ result["r1"] = Err("InvalidPlan")
    /\ invoked["r1"] = <<>>

\* The orders of the steps of run r that ended with Success.
SuccessOrders(r) ==
    { plan[r].steps[i].order :
        i \in { j \in 1..Len(observations[r]) : observations[r][j].status = Success } }

\* C14: a step whose tool the registry does not know has a Skipped
\* observation, its tool is not invoked and the call does not end in an
\* error; the loop is left early only after a Failed observation, so after a
\* Skipped one the next step is processed; the orders recorded as successful
\* outputs are those of the Success observations only.
C14_SkippedNeverHalts ==
    /\ \A i \in 1..Len(observations["r1"]) :
         ~RegistryGet(plan["r1"].steps[i].tool_name)
           => /\ observations["r1"][i].status = Skipped
              /\ Count(invoked["r1"], i) = 0
    /\ Len(plan["r1"].steps) <= ENGINE_MAX_STEPS_PER_PLAN => pc["r1"] # "error"
    /\ halted["r1"]
         => /\ observations["r1"] # <<>>
            /\ observations["r1"][Len(observations["r1"])].status = Failed
    /\ ( /\ pc["r1"] \in {"step", "returned"}
         /\ observations["r1"] # <<>>
         /\ observations["r1"][Len(observations["r1"])].status = Skipped )
         => /\ ~halted["r1"]
            /\ step_idx["r1"] = Len(observations["r1"]) + 1
            /\ pc["r1"] = "returned" => Len(observations["r1"]) = Len(plan["r1"].steps)
    /\ pc["r1"] \in {"step", "returned"} => step_outputs["r1"] = SuccessOrders("r1")

\* The first step names an unregistered tool and is Skipped; the second step
\* ran.
C14_Witness ==
    /\ pc["r1"] = "returned"
    /\ Len(observations["r1"]) = 2
    /\ plan["r1"].steps[1].tool_name = UnknownTool
    /\ plan["r1"].steps[1].dependencies = {}
    /\ plan["r1"].steps[1].order = 1
    /\ observations["r1"][1].status = Skipped
    /\ observations["r1"][2].status = Success
    /\ invoked["r1"] = << 2 >>
    /\ 1 \notin step_outputs["r1"]

\* C15 as stated: no step removes or alters a record the log holds, a record
\* call that carries the id of a stored record included, so get(A) keeps
\* returning the record first stored under A.
C15_StoredRecordNeverAltered ==
    [][ \A a \in DOMAIN records :
          /\ a \in DOMAIN records'
          /\ records'[a] = records[a] ]_vars

\* C16: verify_integrity(A) returns true when the record stored under A
\* carries the hash of its own goal, false when it carries another hash, and
\* false (not an error) when no record has id A; the call leaves the log as it
\* was.
C16_IntegrityOfStoredHash ==
    /\ [](\A r \in Runs :
            result[r].kind = "checked" =>
              LET a == result[r].audit_id
              IN /\ result[r].value \in BOOLEAN
                 /\ a \notin DOMAIN records => result[r].value = FALSE
                 /\ a \in DOMAIN records =>
                      \E g \in Runs, t \in Times :
                        \/ /\ records[a] = ClientRecord(a, g, FALSE, t)
                           /\ result[r].value = TRUE
                        \/ /\ records[a] = ClientRecord(a, g, TRUE, t)
                           /\ result[r].value = FALSE)
    /\ [][ \A r \in Runs :
             (pc[r] = "integrity_locked" \/ pc'[r] = "integrity_locked")
               => records' = records ]_vars

\* The record under the id asked for carries a stale hash.
C16_Witness ==
    /\ result["r1"].kind = "checked"
    /\ result["r1"].audit_id \in DOMAIN records
    /\ records[result["r1"].audit_id].context_snapshot_hash
         # ComputeContextHash(records[result["r1"].audit_id].goal)
    /\ result["r1"].value = FALSE

\* C17: list_for_user(u) returns the audit ids of the stored records whose
\* user id is u, all of them, each once, none of another user, in ascending
\* order of created_at.
C17_ListOfUserByTime ==
    \A r \in Runs :
      result[r].kind = "listed" =>
        LET s == result[r].value
            u == result[r].user_id
        IN /\ { s[i] : i \in DOMAIN s } = { a \in DOMAIN records : records[a].user_id = u }
           /\ \A i, j \in DOMAIN s : i # j => s[i] # s[j]
           /\ \A i \in DOMAIN s : records[s[i]].user_id = u
           /\ \A i \in 1..(Len(s) - 1) :
                records[s[i]].created_at <= records[s[i + 1]].created_at

\* Two records of the user, the one with the higher id created first.
C17_Witness ==
    /\ result["r1"].kind = "listed"
    /\ result["r1"].value = << 2, 1 >>
    /\ records[2].created_at < records[1].created_at

\* C18: for a run that returned Ok, replay_execution of the returned audit id
\* yields one record: its goal is the goal submitted, its plan the plan of the
\* verified attempt, its observations those the engine returned for that
\* plan, its verification result the verdict that passed, its reasoning trace
\* the trace returned to the caller.
C18_ReplayReconstructsRun ==
    \A r \in Runs :
      result[r].kind = "ok" =>
        /\ Cardinality(ReplayExecution(result[r].audit_id)) = 1
        /\ \A rec \in ReplayExecution(result[r].audit_id) :
             /\ rec.audit_id = result[r].audit_id
             /\ rec.goal = GoalOf(r)
             /\ rec.user_id = UserOf(r) /\ rec.tenant_id = TenantOf(r)
             /\ rec.plan = plan[r]
             /\ rec.plan.plan_id = << r, Len(planner_calls[r]) >>
             /\ rec.observations = observations[r]
             /\ \A i \in 1..Len(rec.observations) :
                  rec.observations[i].plan_id = rec.plan.plan_id
             /\ rec.verification_result = LastVerdict(r)
             /\ rec.verification_result.verified
             /\ rec.reasoning_trace = result[r].reasoning_trace
             /\ rec.reasoning_trace[Len(rec.reasoning_trace)].stage = "COMPLETE"

\* Both runs returned Ok, the first after a replan.
C18_Witness ==
    /\ result["r1"].kind = "ok"
    /\ result["r2"].kind = "ok"
    /\ Len(planner_calls["r1"]) = 2
    /\ result["r1"].audit_id # result["r2"].audit_id
    /\ ReplayExecution(result["r1"].audit_id) # {}

\* The ids the callers have recorded are pairwise distinct.
DistinctWrites ==
    /\ NoRepeat(audit_writes["r1"] \o audit_writes["r2"])

\* C19: two callers never hold the write guard together and nobody reads
\* while one holds it; an insert stores the caller's record and leaves every
\* record under another id as it was; once no record call is in progress and
\* the ids recorded were distinct, get returns for each of them the record of
\* the caller that recorded it; a get returns nothing or one whole record of
\* the id asked for.
C19_WritersExclusiveNoLostInsert ==
    /\ [](\A r \in Runs : \A o \in Runs \ {r} :
            WriteLocked(r) => ~WriteLocked(o) /\ ~ReadLocked(o))
    /\ [][ \A r \in Runs :
             (WriteLocked(r) /\ ~WriteLocked(r)')
               => /\ execution_record[r].audit_id \in DOMAIN records'
                  /\ records'[execution_record[r].audit_id] = execution_record[r]
                  /\ \A a \in DOMAIN records \ {execution_record[r].audit_id} :
                       a \in DOMAIN records' /\ records'[a] = records[a] ]_vars
    /\ []( ( DistinctWrites /\ \A r \in Runs : ~WriteLocked(r) )
            => \A r \in Runs : \A i \in 1..Len(audit_writes[r]) :
                 \E rec \in OwnRecords(r) :
                   /\ rec.audit_id = audit_writes[r][i]
                   /\ AuditGet(audit_writes[r][i]) = { rec } )
    /\ [](\A r \in Runs :
            result[r].kind = "got"
              => \/ result[r].value = {}
                 \/ \E rec \in ClientRecords :
                      /\ rec.audit_id = result[r].audit_id
                      /\ result[r].value = { rec })

\* The first caller holds the write guard for a record of id 2 while the
\* second caller, whose record of id 1 is stored, waits to get.
C19_Witness ==
    /\ WriteLocked("r1")
    /\ execution_record["r1"].audit_id = 2
    /\ audit_writes["r2"] = << 1 >>
    /\ pc["r2"] = "client"
    /\ result["r2"].kind = "recorded"
    /\ 1 \in DOMAIN records

\* ------------------------------------------------------------------ C20

\* C20: after any sequence of add_message, add_existing_message,
\* remove_oldest, trim_to_recent and clear on a history, total_tokens is the
\* sum of the token counts of the messages the history holds.
C20_TotalIsSumOfHeld == total_tokens = SumTokens(messages)

\* A history whose oldest message was removed and which still holds
\* messages with tokens, a summary among them.
C20_Witness ==
    /\ Len(messages) >= 2
    /\ messages[1].message_id > 1
    /\ \E i \in DOMAIN messages : messages[i].is_summary
    /\ total_tokens > 0

\* ------------------------------------------------------------------ C21..C23, C29

\* What the context-manager call of r1 returned, once it has.
Returned(kind) ==
    pc["r1"] = "returned" /\ result["r1"].kind = kind

\* The position in the history of the message with this id.
PositionOf(id) == CHOOSE i \in DOMAIN messages : messages[i].message_id = id

\* The positions of the preserve_recent_count most recent messages.
RecentWindow ==
    { i \in DOMAIN messages : i > Len(messages) - config.preserve_recent_count }

\* C21: should_summarize is true exactly when the token total is at least
\* max_context_tokens * summarization_threshold truncated to an integer and
\* the history holds more than min_messages_to_keep messages; it is false for
\* every history of at most min_messages_to_keep messages.
C21_ShouldSummarizeIff ==
    Returned("should_summarize") =>
        LET value == result["r1"].value
            product == config.max_context_tokens * config.summarization_threshold
        IN  /\ value <=> /\ 100 * (total_tokens + 1) > product
                         /\ Len(messages) > config.min_messages_to_keep
            /\ Len(messages) <= config.min_messages_to_keep => ~value

\* The call returned true at the boundary of both conditions: one message
\* more than the minimum, and a total below the untruncated product.
C21_Witness ==
    /\ Returned("should_summarize")
    /\ result["r1"].value
    /\ Len(messages) = config.min_messages_to_keep + 1
    /\ 100 * total_tokens < config.max_context_tokens * config.summarization_threshold

\* C22: get_messages_to_archive returns, in history order, exactly the
\* non-summary messages outside the window of the preserve_recent_count most
\* recent messages, and nothing when the history holds at most that many.
C22_ArchiveIsOldNonSummaries ==
    Returned("archive") =>
        LET value == result["r1"].value
            old == { i \in DOMAIN messages : i \notin RecentWindow /\ ~messages[i].is_summary }
        IN  /\ \A j \in DOMAIN value :
                 \E i \in old : messages[i] = value[j]
            /\ \A i \in old : \E j \in DOMAIN value : value[j] = messages[i]
            /\ \A j1, j2 \in DOMAIN value :
                 j1 < j2 => PositionOf(value[j1].message_id) < PositionOf(value[j2].message_id)
            /\ \A j \in DOMAIN value :
                 /\ ~value[j].is_summary
                 /\ PositionOf(value[j].message_id) \notin RecentWindow
            /\ Len(messages) <= config.preserve_recent_count => value = <<>>

\* Two messages were archived around a summary that was left out, and the
\* window held a message.
C22_Witness ==
    /\ Returned("archive")
    /\ Len(result["r1"].value) = 2
    /\ config.preserve_recent_count = 1
    /\ \E i \in DOMAIN messages : i \notin RecentWindow /\ messages[i].is_summary

\* The parts of C23 that hold of every history and configuration: the
\* summaries come first in history order, the non-summary messages of the
\* recent window follow, no id twice, never longer than the history, at most
\* preserve_recent_count non-summary messages.
ContextWellFormed(value) ==
    LET s == SummaryCount(messages) IN
    /\ Len(value) >= s
    /\ \A j \in 1..s : value[j].is_summary
    /\ \A i \in DOMAIN messages :
         messages[i].is_summary => \E j \in 1..s : value[j] = messages[i]
    /\ \A j1, j2 \in 1..s :
         j1 < j2 => PositionOf(value[j1].message_id) < PositionOf(value[j2].message_id)
    /\ { value[j] : j \in (s + 1)..Len(value) }
         = { messages[i] : i \in { w \in RecentWindow : ~messages[w].is_summary } }
    /\ \A j1, j2 \in DOMAIN value :
         value[j1].message_id = value[j2].message_id => j1 = j2
    /\ Len(value) <= Len(messages)
    /\ Cardinality({ j \in DOMAIN value : ~value[j].is_summary })
         <= config.preserve_recent_count

\* C23 as stated: the context is well formed and non-empty for every
\* non-empty history.
C23_AsStated ==
    Returned("context") =>
        /\ ContextWellFormed(result["r1"].value)
        /\ messages # <<>> => result["r1"].value # <<>>

\* C23, amended: the context is well formed, and it is non-empty for a
\* non-empty history when preserve_recent_count is at least one or the
\* history holds a summary.
C23_ContextOfSummariesAndRecent ==
    Returned("context") =>
        /\ ContextWellFormed(result["r1"].value)
        /\ ( /\ messages # <<>>
             /\ config.preserve_recent_count >= 1 \/ SummaryCount(messages) > 0 )
           => result["r1"].value # <<>>

\* A context of an old summary, a summary inside the recent window and a
\* recent non-summary message.
C23_Witness ==
    /\ Returned("context")
    /\ Len(result["r1"].value) = 3
    /\ config.preserve_recent_count = 2
    /\ \E i \in RecentWindow : messages[i].is_summary
    /\ \E i \in DOMAIN messages : i \notin RecentWindow /\ messages[i].is_summary

\* C29: for a history of n messages none of which is a summary,
\* trim_to_recent(k) leaves the min(n, k) most recent messages in their
\* order, and leaves the history as it was when n is at most k.
C29_TrimKeepsMostRecent ==
    Returned("trimmed") =>
        LET before == result["r1"].value
            n == Len(before)
            k == config.preserve_recent_count
        IN  SummaryCount(before) = 0 =>
              /\ Len(messages) = Min(n, k)
              /\ messages = SubSeq(before, n - Min(n, k) + 1, n)
              /\ n <= k => messages = before

\* Three messages without a summary were trimmed to the two most recent.
C29_Witness ==
    /\ Returned("trimmed")
    /\ SummaryCount(result["r1"].value) = 0
    /\ Len(result["r1"].value) = 3
    /\ config.preserve_recent_count = 2
    /\ Len(messages) = 2

\* ------------------------------------------------------------------ C24

\* The messages of msgs flagged as summaries.
SummariesOf(msgs) == { msgs[i] : i \in { j \in DOMAIN msgs : msgs[j].is_summary } }

\* The messages of msgs not flagged as summaries.
OthersOf(msgs) == { msgs[i] : i \in { j \in DOMAIN msgs : ~msgs[j].is_summary } }

\* C24: a summarization round (the summary is appended, then
\* trim_to_recent(preserve_recent_count) runs) keeps every summary message
\* the history held, those of earlier rounds included, and of the other
\* messages only the preserved-recent window.
C24_RoundKeepsEverySummary ==
    [][ \A r \in Runs :
          (pc[r] = "summarize" /\ pc'[r] = "prepare" /\ history'[r] # history[r])
          => /\ SummariesOf(history[r].messages) \subseteq SummariesOf(history'[r].messages)
             /\ Cardinality(OthersOf(history'[r].messages)) <= config.preserve_recent_count
      ]_vars

\* ------------------------------------------------------------------ C25

\* C25: a failed persist_observation ends run with that error: no later
\* observation of the plan is persisted, no verification, no replan and no
\* audit record follow.  AuditLog::record has no error return, so its
\* failure is covered from the side of the result: a successful result is
\* returned only with the audit record of its id written.
C25_PersistenceFailureIsTerminal ==
    /\ [][ \A r \in Runs :
             /\ (pc[r] = "persist" /\ result'[r] # result[r])
                => /\ EndedWith(r, "StateError")'
                   /\ persist_idx'[r] = persist_idx[r]
                   /\ verdicts'[r] = verdicts[r]
                   /\ replan_count'[r] = replan_count[r]
                   /\ planner_calls'[r] = planner_calls[r]
                   /\ audit_writes'[r] = audit_writes[r]
                   /\ records' = records
                   /\ observations_by_plan' = observations_by_plan
             /\ pc[r] = "error"
                => /\ RunState(r)' = RunState(r)
                   /\ records' = records
                   /\ observations_by_plan' = observations_by_plan
         ]_vars
    /\ [](\A r \in Runs :
            /\ result[r].kind = "err" => pc[r] = "error"
            /\ result[r].kind = "ok"
               => /\ result[r].audit_id \in DOMAIN records
                  /\ audit_writes[r] = << result[r].audit_id >>)

\* persist_observation failed on the second observation of a plan of more
\* than two: the run ended with the state error, the later observations
\* were never handed to the store and no verdict was given on the plan.
C25_Witness ==
    /\ EndedWith("r1", "StateError")
    /\ persist_idx["r1"] = 2
    /\ Len(persist_calls["r1"]) = 2
    /\ Len(observations["r1"]) > 2
    /\ verdicts["r1"] = <<>>
    /\ records = << >>

\* ------------------------------------------------------------------ C26

\* The state of the orchestration state machine run is in: Planning up to
\* the plan's acceptance, Executing up to the last persisted observation,
\* Verifying up to the audit write.
Phase(r) ==
    CASE pc[r] \in {"idle", "load_context", "plan"} -> "Planning"
      [] pc[r] \in {"execute", "step", "returned", "persist", "persist_push"} -> "Executing"
      [] pc[r] \in {"verify", "record"} -> "Verifying"
      [] pc[r] = "completed" -> "Completed"
      [] pc[r] = "error" -> "Error"

\* The transitions of the state machine; Replanning is the step that takes
\* Verifying back to Planning.
PhaseSteps ==
    { << "Planning", "Executing" >>, << "Executing", "Verifying" >>,
      << "Verifying", "Completed" >>, << "Verifying", "Planning" >>,
      << "Planning", "Error" >>, << "Executing", "Error" >> }

\* C26: when every call returns, run reaches Completed or Error; on the way
\* it only goes from Planning to Executing to Verifying, and from there to
\* Completed or, replanning, back to Planning; a verdict is given only on
\* the observations of the plan just executed.
C26_RunTerminatesThroughStateMachine ==
    /\ [][ \A r \in Runs :
             /\ Phase(r)' # Phase(r)
                => /\ << Phase(r), Phase(r)' >> \in PhaseSteps
                   /\ (Phase(r) = "Verifying" /\ Phase(r)' = "Planning")
                      => /\ replan_count'[r] = replan_count[r] + 1
                         /\ verdicts'[r] # verdicts[r]
                         /\ ~verdicts'[r][Len(verdicts'[r])].verified
             /\ verdicts'[r] # verdicts[r]
                => /\ pc[r] = "verify"
                   /\ ObservationsOfPlan(r)
                   /\ Len(planner_calls[r]) = Len(verdicts[r]) + 1
         ]_vars
    /\ <>Ended("r1")

\* A run that went through Replanning and then completed.
C26_Witness ==
    /\ pc["r1"] = "completed"
    /\ replan_count["r1"] = 1
    /\ Len(verdicts["r1"]) = 2

\* ------------------------------------------------------------------ C27

\* The stage a trace entry is printed under: the text before the colon.
StageOf(e) ==
    CASE e.stage = "PLAN_STEPS" -> "PLAN"
      [] e.stage = "VERIFY_RESULT" -> "VERIFY"
      [] OTHER -> e.stage

\* The entries of attempt i of run r as the store and the verdicts tell
\* them: PLAN, EXECUTE, one OBSERVE for each observation stored under the
\* attempt's plan, carrying its position and tool, the two VERIFY entries,
\* then COMPLETE or REPLAN with the attempt's number.
AttemptEntries(r, i) ==
    LET stored == LoadObservations(<< r, i >>)
        v == verdicts[r][i]
    IN  << << "PLAN", 0, "" >>, << "EXECUTE", 0, "" >> >>
        \o [j \in 1..Len(stored) |-> << "OBSERVE", j, stored[j].tool_name >>]
        \o << << "VERIFY", 0, "" >>, << "VERIFY", 0, "" >> >>
        \o << IF v.verified THEN << "COMPLETE", 0, "" >> ELSE << "REPLAN", i, "" >> >>

RECURSIVE AttemptsFrom(_, _)
AttemptsFrom(r, i) ==
    IF i > Len(verdicts[r]) THEN <<>>
    ELSE AttemptEntries(r, i) \o AttemptsFrom(r, i + 1)

\* What an entry says, as far as C27 speaks of it.
Told(e) ==
    << StageOf(e),
       IF e.stage \in {"OBSERVE", "REPLAN"} THEN e.a ELSE 0,
       IF e.stage = "OBSERVE" THEN e.tool ELSE "" >>

\* C27: the trace a successful run returns is INPUT, the opening PLAN entry,
\* then attempt by attempt PLAN, EXECUTE, one OBSERVE per observation in
\* step order and the VERIFY entries, one REPLAN after each failed
\* verification and a single COMPLETE at the end; and run only ever appends
\* to its trace.
C27_TraceFollowsAttempts ==
    /\ [](\A r \in Runs :
            result[r].kind = "ok" =>
              LET trace == result[r].reasoning_trace
                  n == Len(verdicts[r])
              IN  /\ [k \in 1..Len(trace) |-> Told(trace[k])]
                       = << << "INPUT", 0, "" >>, << "PLAN", 0, "" >> >> \o AttemptsFrom(r, 1)
                  /\ Count([k \in 1..Len(trace) |-> trace[k].stage], "REPLAN") = n - 1
                  /\ Count([k \in 1..Len(trace) |-> trace[k].stage], "COMPLETE") = 1
                  /\ trace[Len(trace)].stage = "COMPLETE"
                  /\ \A i \in 1..n : verdicts[r][i].verified <=> i = n)
    /\ [][ \A r \in Runs :
             /\ Len(reasoning_trace'[r]) >= Len(reasoning_trace[r])
             /\ SubSeq(reasoning_trace'[r], 1, Len(reasoning_trace[r])) = reasoning_trace[r]
         ]_vars

\* A run returned its trace after one replan, the accepted attempt having
\* observed more than one step.
C27_Witness ==
    /\ result["r1"].kind = "ok"
    /\ Len(verdicts["r1"]) = 2
    /\ Len(LoadObservations(<< "r1", 2 >>)) >= 2
    /\ Len(LoadObservations(<< "r1", 1 >>)) >= 1

\* ------------------------------------------------------------------ C28

\* Every step names a registered tool and every declared dependency is the
\* order of an earlier step.
WellFormedPlan(p) ==
    /\ p # NoPlan
    /\ \A i \in DOMAIN p.steps :
         /\ RegistryGet(p.steps[i].tool_name)
         /\ \A d \in p.steps[i].dependencies :
              \E j \in 1..(i - 1) : p.steps[j].order = d

\* No execute call of the current attempt returned an error.
ToolsSucceeded(r) ==
    \A i \in DOMAIN observations[r] : observations[r][i].status # Failed

\* The first plan of r is well formed, its tools succeeded, the rules are
\* the default ones, and run has ended.
FirstPlanWentWell(r) ==
    /\ Ended(r)
    /\ Len(planner_calls[r]) = 1
    /\ WellFormedPlan(plan[r])
    /\ ToolsSucceeded(r)
    /\ rules = DefaultRules

\* C28 as stated: a well-formed plan whose tools succeed always ends in Ok.
C28_AsStated ==
    \A r \in Runs : FirstPlanWentWell(r) => result[r].kind = "ok"

\* C28, amended: a well-formed plan of at most MAX_STEPS_PER_PLAN steps whose
\* tools succeed gets one Success observation per step from execute_plan and
\* is not replanned under the default rules; when also no state store call
\* fails, run returns Ok after a single planner invocation, with a non-empty
\* trace holding no REPLAN entry.
C28_WellFormedPlanSucceeds ==
    /\ [](\A r \in Runs :
            /\ ( /\ pc[r] \in {"returned", "persist", "persist_push", "verify", "record", "completed"}
                 /\ WellFormedPlan(plan[r])
                 /\ ToolsSucceeded(r) )
               => /\ Len(observations[r]) = Len(plan[r].steps)
                  /\ \A i \in DOMAIN observations[r] :
                       /\ observations[r][i].status = Success
                       /\ observations[r][i].step_id = << plan[r].plan_id, i >>
            /\ ( /\ FirstPlanWentWell(r)
                 /\ Len(plan[r].steps) <= MAX_STEPS_PER_PLAN
                 /\ ~EndedWith(r, "StateError") )
               => /\ result[r].kind = "ok"
                  /\ result[r].reasoning_trace # <<>>
                  /\ \A k \in DOMAIN result[r].reasoning_trace :
                       result[r].reasoning_trace[k].stage # "REPLAN"
                  /\ replan_count[r] = 0)
    /\ [][ \A r \in Runs :
             ( /\ pc[r] = "verify"
               /\ WellFormedPlan(plan[r])
               /\ ToolsSucceeded(r)
               /\ rules = DefaultRules )
             => pc'[r] # "plan"
         ]_vars

\* The two-step plan of the mock planner, its second step depending on the
\* first, ran to Ok on the first attempt.
C28_Witness ==
    /\ result["r1"].kind = "ok"
    /\ plan["r1"].steps = MockSteps
    /\ Len(planner_calls["r1"]) = 1
    /\ Len(observations["r1"]) = 2
    /\ rules = DefaultRules

\* ------------------------------------------------------------------ C30

\* C30: the first create_plan call of a run is given no failure reason and
\* every later call is given one; a call with a failure reason comes only
\* after a verification of the same run returned verified = false.
C30_FailureReasonAfterFailedVerification ==
    \A r \in Runs :
      \A i \in DOMAIN planner_calls[r] :
        /\ planner_calls[r][i] = "None" <=> i = 1
        /\ planner_calls[r][i] = "Some"
           => /\ i - 1 \in DOMAIN verdicts[r]
              /\ ~verdicts[r][i - 1].verified

\* The planner was called a third time, after two refused verdicts.
C30_Witness ==
    /\ planner_calls["r1"] = << "None", "Some", "Some" >>
    /\ Len(verdicts["r1"]) = 2

\* ------------------------------------------------------------------ C31

\* The observations the state store holds for the user of run r that were
\* persisted by attempts of r before its current plan.
PersistedByEarlierAttempts(r) ==
    { s \in ObservationsOfUser(UserOf(r)) :
        pc[r] = "verify" => s[1] # plan[r].plan_id }

VerifiedIsLowRisk ==
    \A rs \in RuleSeqs : \A obs \in TestObservationLists :
      \A ext \in [CustomNames -> BOOLEAN] :
        Verify(rs, obs, ext).verified => Verify(rs, obs, ext).risk_level = Low

\* C32: a verdict with verified = true has risk level Low, for any rule set;
\* every Ok result of run reports the risk summary Low and as many passed
\* checks as there are registered rules; with the default rules every
\* observation of every audit record has status Success.
C32_VerifiedMeansLowRisk ==
    /\ VerifiedIsLowRisk
    /\ \A r \in Runs :
         /\ \A i \in DOMAIN verdicts[r] :
              verdicts[r][i].verified => verdicts[r][i].risk_level = Low
         /\ result[r].kind = "ok"
            => /\ result[r].risk_summary = Low
               /\ result[r].compliance_statement = Len(rules)
    /\ rules = DefaultRules
       => \A id \in DOMAIN records :
            \A i \in DOMAIN records[id].observations :
              records[id].observations[i].status = Success

\* A run under the default rules returned Ok and its audit record holds an
\* observation.
C32_Witness ==
    /\ result["r1"].kind = "ok"
    /\ rules = DefaultRules
    /\ \E id \in DOMAIN records : Len(records[id].observations) >= 1

\* ------------------------------------------------------------------ C33

\* The observations the state store holds under a plan id.
StoredUnder(store, plan_id) ==
    IF plan_id \in DOMAIN store THEN store[plan_id] ELSE <<>>

\* Every observation of an execution record carries the plan id of the
\* record's plan, and the record of a run holds exactly the observations of
\* the attempt that was accepted.
RecordHoldsAcceptedAttempt ==
    /\ \A id \in DOMAIN records :
         \A i \in DOMAIN records[id].observations :
           records[id].observations[i].plan_id = records[id].plan.plan_id
    /\ \A r \in Runs :
         execution_record[r] # NoRecord
           => /\ execution_record[r].plan = plan[r]
              /\ execution_record[r].observations = observations[r]
              /\ \A i \in DOMAIN execution_record[r].observations :
                   execution_record[r].observations[i].plan_id = plan[r].plan_id

\* C33: an execution record holds the observations of the accepted attempt
\* only, each carrying the plan id of the record's plan; when an attempt is
\* verified, accepted or not, the state store holds its observations under
\* its plan id, and no step of a run removes an observation from the store.
C33_RecordHoldsAcceptedAttempt ==
    /\ []RecordHoldsAcceptedAttempt
    /\ [][ /\ \A r \in Runs :
                Len(verdicts'[r]) > Len(verdicts[r])
                  => StoredUnder(observations_by_plan', plan[r].plan_id) = observations[r]
           /\ \A p \in DOMAIN observations_by_plan :
                /\ p \in DOMAIN observations_by_plan'
                /\ SubSeq(observations_by_plan'[p], 1, Len(observations_by_plan[p]))
                     = observations_by_plan[p]
         ]_vars

\* A run was accepted on its second attempt: its record holds the observation
\* of the second plan and the store holds those of both plans.
C33_Witness ==
    /\ pc["r1"] = "completed"
    /\ replan_count["r1"] = 1
    /\ Len(execution_record["r1"].observations) >= 1
    /\ \E p, q \in DOMAIN observations_by_plan :
         /\ p # q
         /\ p # plan["r1"].plan_id
         /\ q = plan["r1"].plan_id

\* ------------------------------------------------------------------ C34

\* The way of an attempt through run when nothing stops it.
AttemptPath ==
    [ execute |-> "step", step |-> "returned", returned |-> "verify",
      verify |-> "record", record |-> "completed" ]

\* C34: under the default rules an attempt whose plan has no steps goes from
\* execute_plan to the audit write without leaving the path of an accepted
\* attempt: no tool is invoked, no observation is made, the verdict is
\* verified, and the run ends with an Ok result and an audit record that
\* holds zero observations.
C34_EmptyPlanAccepted ==
    /\ [](\A r \in Runs :
            (pc[r] = "completed" /\ plan[r].steps = <<>> /\ rules = DefaultRules)
              => /\ result[r].kind = "ok"
                 /\ result[r].audit_id \in DOMAIN records
                 /\ records[result[r].audit_id].observations = <<>>
                 /\ records[result[r].audit_id].plan = plan[r]
                 /\ verdicts[r][Len(verdicts[r])].verified)
    /\ [][ \A r \in Runs :
             ( /\ pc[r] \in DOMAIN AttemptPath
               /\ plan[r].steps = <<>>
               /\ rules = DefaultRules
               /\ pc'[r] # pc[r] )
               => /\ pc'[r] = AttemptPath[pc[r]]
                  /\ observations'[r] = <<>>
                  /\ invoked'[r] = <<>>
                  /\ replan_count'[r] = replan_count[r]
         ]_vars

\* The first plan of a run had no steps and the run completed on it.
C34_Witness ==
    /\ pc["r1"] = "completed"
    /\ plan["r1"].steps = <<>>
    /\ replan_count["r1"] = 0
    /\ result["r1"].kind = "ok"

\* ------------------------------------------------------------------ C35

\* The positions of the plan of run r whose tool.execute call returned the
\* given variant.
StepsReturning(r, returned) ==
    { tool_results[r][j].step :
        j \in { k \in DOMAIN tool_results[r] : tool_results[r][k].returned = returned } }

\* C35: within one execute_plan call a step has status Success exactly when
\* its tool's execute returned Ok, with the success flag of the output set or
\* not, and Failed exactly when execute returned an error; the orders
\* available to dependent steps are those of the steps whose call returned
\* Ok; no step's tool is called twice.
C35_StatusFollowsExecuteResult ==
    \A r \in Runs :
      pc[r] \in {"step", "returned"}
        => /\ \A i \in DOMAIN observations[r] :
                /\ observations[r][i].status = Success <=> i \in StepsReturning(r, "Ok")
                /\ observations[r][i].status = Failed <=> i \in StepsReturning(r, "Err")
           /\ step_outputs[r] = { plan[r].steps[i].order : i \in StepsReturning(r, "Ok") }
           /\ \A i \in DOMAIN plan[r].steps :
                /\ Cardinality({ j \in DOMAIN tool_results[r] : tool_results[r][j].step = i }) <= 1
                /\ Count(invoked[r], i) <= 1
           /\ Len(tool_results[r]) = Len(invoked[r])

\* A tool returned Ok with the success flag unset: its step is Success and
\* the step that depends on it had its tool called.
C35_Witness ==
    /\ pc["r1"] = "returned"
    /\ Len(observations["r1"]) = 2
    /\ tool_results["r1"][1] = ToolResult(1, "Ok", FALSE)
    /\ observations["r1"][1].status = Success
    /\ plan["r1"].steps[2].dependencies = {plan["r1"].steps[1].order}
    /\ Len(tool_results["r1"]) = 2

\* ------------------------------------------------------------------ C36

\* The ids of the messages of msgs.
IdsOf(msgs) == { msgs[i].message_id : i \in DOMAIN msgs }

\* C36: in every summarization round the messages that leave the history are
\* exactly those get_messages_to_archive returned for the history the round
\* started with.
C36_RemovedAreTheArchived ==
    [][ \A r \in Runs :
          (pc[r] = "summarize" /\ pc'[r] = "prepare" /\ history'[r] # history[r])
          => IdsOf(history[r].messages) \ IdsOf(history'[r].messages)
               = IdsOf(GetMessagesToArchive(config, history[r].messages))
      ]_vars

\* ------------------------------------------------------------------ C37

\* The position in msgs of the message with the given id.
IndexOf(msgs, id) == CHOOSE i \in DOMAIN msgs : msgs[i].message_id = id

\* C37: the list prepare_context_for_llm hands to the request ends with the
\* most recently added message of the history, and the messages of the recent
\* window that are not summaries appear in it in the order they were added.
C37_ContextEndsWithNewest ==
    \A r \in Runs :
      (pc[r] = "llm" /\ result[r].kind = "context" /\ result[r].value # <<>>)
        => LET value == result[r].value
               msgs == history[r].messages
           IN /\ value[Len(value)].message_id = msgs[Len(msgs)].message_id
              /\ \A j1, j2 \in DOMAIN value :
                   (j1 < j2 /\ ~value[j1].is_summary /\ ~value[j2].is_summary)
                     => IndexOf(msgs, value[j1].message_id)
                          < IndexOf(msgs, value[j2].message_id)

\* ------------------------------------------------------------------ C38

\* The query and the answer of the request run r has just completed: the
\* last two messages of its history that are not summaries.
OwnMessages(r) ==
    LET others == SelectSeq(history[r].messages, LAMBDA m : ~m.is_summary)
    IN  { others[i].message_id : i \in { j \in DOMAIN others : j > Len(others) - 2 } }

\* No summarization round has left a summary in the stored history or in the
\* history of a run, so that no message was removed by a trim.
NoSummaryAnywhere ==
    /\ SummaryCount(histories["c1"].messages) = 0
    /\ \A r \in Runs : SummaryCount(history[r].messages) = 0

\* C38: once two requests for the same conversation have both completed
\* successfully, the stored history holds the user message and the answer of
\* both.
C38_BothRequestsStored ==
    ((\A r \in Runs : pc[r] = "answered") /\ NoSummaryAnywhere)
      => \A r \in Runs : OwnMessages(r) \subseteq IdsOf(histories["c1"].messages)

\* ------------------------------------------------------------------ C39

\* C39: a request whose call_gemini_api fails returns an error and leaves the
\* stored history as it was; the stored history changes only in the step in
\* which a request that got its answer saves, so neither the query nor a
\* summary or a trim of the failed request reaches the store.
C39_FailedRequestSavesNothing ==
    /\ [](\A r \in Runs : pc[r] = "chat_failed" => result[r].kind = "err")
    /\ [][ /\ \A r \in Runs :
                (pc[r] = "llm" /\ pc'[r] = "chat_failed")
                  => /\ histories' = histories
                     /\ result'[r].kind = "err"
           /\ histories' # histories
                => \E r \in Runs : pc[r] = "llm" /\ pc'[r] = "answered"
         ]_vars

\* A request failed after a summarization round: its own history holds the
\* query and the summary, the stored history holds neither.
C39_Witness ==
    /\ pc["r1"] = "chat_failed"
    /\ SummaryCount(history["r1"].messages) > SummaryCount(histories["c1"].messages)
    /\ histories["c1"].messages # <<>>
    /\ ~(IdsOf(history["r1"].messages) \subseteq IdsOf(histories["c1"].messages))

====
